---- MODULE Spec2Model ----
(***************************************************************************)
(* Post-bundling normalizer of OpenAPI documents (hoistBundledSchemas).    *)
(*                                                                         *)
(* The document is a heap of objects with identity.  A heap node is        *)
(*   [arr |-> BOOLEAN, e |-> <<  <<key, value>>, ... >>]                     *)
(* (a record keeps its keys in insertion order, an array its indices as    *)
(* decimal keys).  A value is a tagged pair:                               *)
(*   <<"o", id>>      a reference to heap object id                        *)
(*   <<"s", text>>    a string without pointer or file syntax              *)
(*   <<"p", tokens>>  the string "#/" + tokens joined by "/"               *)
(*   <<"f", ref>>     a path-like string, ref = [u, d, b, x, h]:           *)
(*                    scheme, directory segments, base name, extension,    *)
(*                    fragment                                             *)
(*   <<"u", "">>      undefined                                            *)
(***************************************************************************)
EXTENDS Integers, Sequences, FiniteSets, TLC

VARIABLES
  heap,      \* object id -> node: the document, the external files' objects, garbage
  nextId,    \* next unused object id
  root,      \* parser.schema: the id of the document root
  refs,      \* parser.$refs: [has, paths, get]
  fs,        \* what the parser abstraction yields for a source path not yet loaded
  registry,  \* SchemaRegistry: [schemaNames, schemaPointersByValue, componentSchemas]
  resolver,  \* ExternalSchemaNameResolver
  pc,        \* position of hoistBundledSchemas
  round,     \* iteration of the discriminator / source-template loop
  run,       \* 1: first normalize call, 2: normalize called again on its own output
  input,     \* the heap as it was when the current run began
  firstOut,  \* the deep value of the document as the first run left it
  log,       \* history: replacements and registrations performed by the passes
  flights,   \* the calls made to the loader by callers that share the resolver
  returned   \* what the last direct call of a helper returned

vars ==
  <<heap, nextId, root, refs, fs, registry, resolver, pc, round, run, input, firstOut, log,
    flights, returned>>

---------------------------------------------------------------------------
(* Values *)

Undef == <<"u", "">>
O(id) == <<"o", id>>
S(text) == <<"s", text>>
P(tokens) == <<"p", tokens>>
F(ref) == <<"f", ref>>

IsObjVal(v) == v[1] = "o"
IsString(v) == v[1] \in {"s", "p", "f"}

\* guards.ts
isObject(h, v) == IsObjVal(v)
isRecord(h, v) == IsObjVal(v) /\ ~h[v[2]].arr
isArray(h, v) == IsObjVal(v) /\ h[v[2]].arr

Rec(entries) == [arr |-> FALSE, e |-> entries]
Arr(items) == [arr |-> TRUE, e |-> [i \in DOMAIN items |-> <<ToString(i - 1), items[i]>>]]

KeysOf(n) == {n.e[i][1] : i \in DOMAIN n.e}
HasKey(n, k) == \E i \in DOMAIN n.e : n.e[i][1] = k
IndexOfKey(n, k) == CHOOSE i \in DOMAIN n.e : n.e[i][1] = k
\* n[k] in JavaScript: undefined when the key is absent
GetKey(n, k) == IF HasKey(n, k) THEN n.e[IndexOfKey(n, k)][2] ELSE Undef
\* n[k] = v in JavaScript: an existing key keeps its place, a new key goes last
SetKey(n, k, v) ==
  IF HasKey(n, k)
    THEN [n EXCEPT !.e[IndexOfKey(n, k)] = <<k, v>>]
    ELSE [n EXCEPT !.e = Append(n.e, <<k, v>>)]

\* value[k] for a value that may be anything
Prop(h, v, k) == IF IsObjVal(v) THEN GetKey(h[v[2]], k) ELSE Undef

---------------------------------------------------------------------------
(* Key sets (constants.ts) *)

SCHEMA_CONTEXT_KEYS ==
  {"$defs", "additionalProperties", "allOf", "anyOf", "contains", "definitions",
   "dependentSchemas", "else", "if", "items", "not", "oneOf", "patternProperties",
   "prefixItems", "properties", "propertyNames", "schema", "schemas", "then",
   "unevaluatedItems", "unevaluatedProperties"}

IGNORED_POINTER_NAME_TOKENS ==
  {"allOf", "anyOf", "components", "content", "items", "oneOf", "paths", "post", "put",
   "patch", "get", "delete", "head", "trace", "options", "requestBody", "responses",
   "schema", "schemas"}

LIKELY_SCHEMA_KEYS ==
  {"$ref", "additionalProperties", "allOf", "anyOf", "const", "discriminator", "enum",
   "format", "items", "not", "oneOf", "patternProperties", "properties", "required", "type"}

REF_REPLACEMENT_ALLOWED_KEYS == {"$ref", "summary", "description"}

isLikelySchemaObject(h, id) == \E k \in LIKELY_SCHEMA_KEYS : HasKey(h[id], k)

---------------------------------------------------------------------------
(* JSON pointers (pointers.ts).  A pointer is its sequence of decoded tokens;  *)
(* the tokens of the model hold neither "~" nor "/" nor "%", on which          *)
(* encodeJsonPointerToken and decodeJsonPointerToken are the identity.         *)

ComponentPrefix == <<"components", "schemas">>
componentPointer(name) == <<"components", "schemas", name>>

StartsWith(seq, prefix) ==
  Len(seq) >= Len(prefix) /\ SubSeq(seq, 1, Len(prefix)) = prefix

\* /^#\/components\/schemas\/[^/]+$/
isComponentSchemaRootPointer(ptr) == Len(ptr) = 3 /\ StartsWith(ptr, ComponentPrefix)

\* ref.startsWith('#/components/schemas/')
startsWithComponentPrefix(ptr) == Len(ptr) >= 3 /\ StartsWith(ptr, ComponentPrefix)

IsDigits(tok) == tok \in {"0", "1", "2", "3", "4", "5"}
TokenIndex(tok) == CHOOSE i \in 0..5 : ToString(i) = tok

RECURSIVE resolveLocalPointerFrom(_, _, _, _)
resolveLocalPointerFrom(h, cur, tokens, i) ==
  IF i > Len(tokens) THEN cur
  ELSE IF isArray(h, cur)
    THEN IF ~IsDigits(tokens[i]) THEN Undef
         ELSE resolveLocalPointerFrom(h, GetKey(h[cur[2]], tokens[i]), tokens, i + 1)
  ELSE IF ~isRecord(h, cur) THEN Undef
  ELSE resolveLocalPointerFrom(h, GetKey(h[cur[2]], tokens[i]), tokens, i + 1)

\* resolveLocalPointer(root, "#/" + tokens)
resolveLocalPointer(h, rootId, tokens) == resolveLocalPointerFrom(h, O(rootId), tokens, 1)

---------------------------------------------------------------------------
(* Fingerprint (fingerprint.ts).  JSON.stringify of the key-sorted tree is     *)
(* modelled by the set of its <<path, leaf>> pairs: two trees have the same    *)
(* string iff they have the same set.  An array index i is the path token      *)
(* "[i]"; an empty record or array is a leaf of its own.                       *)

EmptyRecordLeaf == <<"m", "{}">>
EmptyArrayLeaf == <<"m", "[]">>
CircularLeaf == S("[Circular]")

RECURSIVE normalizeForFingerprint(_, _, _, _, _)
\* A faulty variant of normalizeForFingerprint that drops the doc strings of
\* the records below the root too.
normalizeForFingerprintEveryDepth(h, v, isRoot, seen, path) ==
  IF ~isObject(h, v) THEN {<<path, v>>}
  ELSE IF v[2] \in seen THEN {<<path, CircularLeaf>>}
  ELSE LET n == h[v[2]]
           kept == {i \in DOMAIN n.e : ~(isRoot /\ n.e[i][1] \in {"description", "summary"})}
       IN IF n.arr
            THEN IF n.e = <<>> THEN {<<path, EmptyArrayLeaf>>}
                 ELSE UNION {normalizeForFingerprint(h, n.e[i][2], TRUE, seen \cup {v[2]},
                                Append(path, "[" \o n.e[i][1] \o "]")) : i \in DOMAIN n.e}
            ELSE IF kept = {} THEN {<<path, EmptyRecordLeaf>>}
                 ELSE UNION {normalizeForFingerprint(h, n.e[i][2], TRUE, seen \cup {v[2]},
                                Append(path, n.e[i][1])) : i \in kept}

normalizeForFingerprint(h, v, isRoot, seen, path) ==
  IF ~isObject(h, v) THEN {<<path, v>>}
  ELSE IF v[2] \in seen THEN {<<path, CircularLeaf>>}
  ELSE LET n == h[v[2]]
           kept == {i \in DOMAIN n.e : ~(isRoot /\ n.e[i][1] \in {"description", "summary"})}
       IN IF n.arr
            THEN IF n.e = <<>> THEN {<<path, EmptyArrayLeaf>>}
                 ELSE UNION {normalizeForFingerprint(h, n.e[i][2], FALSE, seen \cup {v[2]},
                                Append(path, "[" \o n.e[i][1] \o "]")) : i \in DOMAIN n.e}
            ELSE IF kept = {} THEN {<<path, EmptyRecordLeaf>>}
                 ELSE UNION {normalizeForFingerprint(h, n.e[i][2], FALSE, seen \cup {v[2]},
                                Append(path, n.e[i][1])) : i \in kept}

createSchemaFingerprint(h, id) == normalizeForFingerprint(h, O(id), TRUE, {}, <<>>)

\* The whole value below v, modulo the order of record keys (no root filter).
RECURSIVE DeepValue(_, _, _, _)
DeepValue(h, v, seen, path) ==
  IF ~isObject(h, v) THEN {<<path, v>>}
  ELSE IF v[2] \in seen THEN {<<path, CircularLeaf>>}
  ELSE LET n == h[v[2]]
       IN IF n.e = <<>> THEN {<<path, IF n.arr THEN EmptyArrayLeaf ELSE EmptyRecordLeaf>>}
          ELSE UNION {DeepValue(h, n.e[i][2], seen \cup {v[2]},
                        Append(path, IF n.arr THEN "[" \o n.e[i][1] \o "]" ELSE n.e[i][1]))
                      : i \in DOMAIN n.e}

---------------------------------------------------------------------------
(* Strings of the model: lower-casing and component-name normalisation are    *)
(* tables over the names the model uses.                                      *)

ChainBase(i) == "N" \o ToString(i)
ChainLower(i) == "n" \o ToString(i)

LowerPairs ==
  {<<"Pet", "pet">>, <<"Id", "id">>, <<"UserA", "usera">>, <<"UserB", "userb">>,
   <<"EventBase", "eventbase">>, <<"Note", "note">>, <<"YAML", "yaml">>,
   <<"RefA", "refa">>, <<"RefB", "refb">>, <<"Entry", "entry">>, <<"Gone", "gone">>}
  \cup {<<ChainBase(i), ChainLower(i)>> : i \in 0..9}

\* String.prototype.toLowerCase
toLowerCase(s) ==
  IF \E p \in LowerPairs : p[1] = s THEN (CHOOSE p \in LowerPairs : p[1] = s)[2] ELSE s

\* normalizeComponentName on one pointer token (naming.ts): PascalCase of the
\* alphanumeric parts; "Schema" when nothing is left.
PascalPairs ==
  {<<"p1", "P1">>, <<"p2", "P2">>, <<"p3", "P3">>, <<"zz", "Zz">>, <<"id", "Id">>,
   <<"schema", "Schema">>, <<"properties", "Properties">>, <<"example", "Example">>,
   <<"next", "Next">>, <<"", "Schema">>}
normalizeComponentName(tok) ==
  IF \E p \in PascalPairs : p[1] = tok THEN (CHOOSE p \in PascalPairs : p[1] = tok)[2] ELSE tok

RECURSIVE createSchemaNameFromPointerAt(_, _)
createSchemaNameFromPointerAt(tokens, i) ==
  IF i < 1
    THEN IF Len(tokens) > 0 THEN normalizeComponentName(tokens[Len(tokens)]) ELSE "Schema"
  ELSE IF tokens[i] = "" \/ IsDigits(tokens[i]) \/ tokens[i] \in IGNORED_POINTER_NAME_TOKENS
    THEN createSchemaNameFromPointerAt(tokens, i - 1)
  ELSE normalizeComponentName(tokens[i])

createSchemaNameFromPointer(tokens) == createSchemaNameFromPointerAt(tokens, Len(tokens))

\* createSchemaNameFromSourcePath: the base name without its last extension;
\* the base names of the model hold only [a-zA-Z0-9._-].
createSchemaNameFromSourcePath(path) == IF path.b = "" THEN "Schema" ELSE path.b

RECURSIVE createUniqueSchemaNameFrom(_, _, _, _)
createUniqueSchemaNameFrom(safeBaseName, uniqueName, index, names) ==
  IF uniqueName \in names
    THEN createUniqueSchemaNameFrom(safeBaseName, safeBaseName \o "_" \o ToString(index),
                                    index + 1, names)
    ELSE uniqueName

\* A faulty variant of createUniqueSchemaName that does not look at the names
\* in use.
createUniqueSchemaNameUnchecked(baseName, names) ==
  IF baseName = "" THEN "Schema" ELSE baseName

\* createUniqueSchemaName returns the name; the caller adds it to the set.
createUniqueSchemaName(baseName, names) ==
  LET safeBaseName == IF baseName = "" THEN "Schema" ELSE baseName
  IN createUniqueSchemaNameFrom(safeBaseName, safeBaseName, 2, names)

---------------------------------------------------------------------------
(* Source paths and file references (sourceResolution.ts, node:path).         *)
(* A source path is [d, b, x]: directory segments from "/", base name,        *)
(* extension.  A file reference string is [u, abs, d, b, x, h]: scheme,       *)
(* leading "/", directory segments, base name, extension, "#fragment".        *)

Path(d, b, x) == [d |-> d, b |-> b, x |-> x]
FileRef(u, abs, d, b, x, h) == [u |-> u, abs |-> abs, d |-> d, b |-> b, x |-> x, h |-> h]
NoPath == [d |-> <<>>, b |-> "", x |-> ""]

looksLikeExternalFileReference(v) ==
  IF v[1] # "f" THEN FALSE           \* "#/..." strings and plain words
  ELSE IF v[2].u # "" THEN FALSE     \* /^[a-zA-Z][a-zA-Z0-9+.-]*:/
  ELSE toLowerCase(v[2].x) \in {"yaml", "yml", "json"}

RECURSIVE normalizeSegments(_, _)
normalizeSegments(segs, acc) ==
  IF segs = <<>> THEN acc
  ELSE IF Head(segs) = "." THEN normalizeSegments(Tail(segs), acc)
  ELSE IF Head(segs) = ".."
    THEN normalizeSegments(Tail(segs), IF acc = <<>> THEN acc ELSE SubSeq(acc, 1, Len(acc) - 1))
  ELSE normalizeSegments(Tail(segs), Append(acc, Head(segs)))

\* nodePath.normalize(nodePath.resolve(nodePath.dirname(sourcePath), ref))
resolveFrom(sourcePath, ref) ==
  IF ref.abs THEN Path(normalizeSegments(ref.d, <<>>), ref.b, ref.x)
  ELSE Path(normalizeSegments(sourcePath.d \o ref.d, <<>>), ref.b, ref.x)

\* the path part of the reference is never empty in the model
resolveSourcePathFromSourceRef(sourcePath, ref) == resolveFrom(sourcePath, ref)

\* nodePath.basename(p).toLowerCase()
lowerBaseName(p) == <<toLowerCase(p.b), toLowerCase(p.x)>>

LowerSegments(p) ==
  [i \in 1..Len(p.d) |-> <<toLowerCase(p.d[i]), "">>] \o << lowerBaseName(p) >>

EndsWith(seq, suffix) ==
  Len(seq) >= Len(suffix) /\ SubSeq(seq, Len(seq) - Len(suffix) + 1, Len(seq)) = suffix

---------------------------------------------------------------------------
(* Maps and the working state threaded through a pass.                        *)
(* st = [heap, nextId, root, fs, reg, res, log, ret, acc, changed, index]     *)

EmptyMap == [x \in {} |-> FALSE]
MapPut(f, k, v) == [x \in (DOMAIN f) \cup {k} |-> IF x = k THEN v ELSE f[x]]
MapHas(f, k) == k \in DOMAIN f

\* Map.prototype.set on an insertion-ordered map kept as a sequence of pairs
OrderedPut(seq, k, v) ==
  IF \E i \in DOMAIN seq : seq[i][1] = k
    THEN [i \in DOMAIN seq |-> IF seq[i][1] = k THEN <<k, v>> ELSE seq[i]]
    ELSE Append(seq, <<k, v>>)
OrderedHas(seq, k) == \E i \in DOMAIN seq : seq[i][1] = k
OrderedGet(seq, k) == seq[CHOOSE i \in DOMAIN seq : seq[i][1] = k][2]

Alloc(st, node) ==
  [st EXCEPT !.heap = [x \in (DOMAIN st.heap) \cup {st.nextId} |->
                          IF x = st.nextId THEN node ELSE st.heap[x]],
             !.nextId = st.nextId + 1,
             !.ret = O(st.nextId)]

\* parent[parentKey] = value
SetSlot(st, par, key, v) == [st EXCEPT !.heap[par] = SetKey(@, key, v)]

---------------------------------------------------------------------------
(* Registry (registry.ts) *)

\* createSchemaRegistry: components and components.schemas are created when
\* falsy; names and pointers are seeded from the existing entries.
\* A faulty variant of createSchemaRegistry that keeps its record of schemas to
\* itself and never attaches components to the document.
createSchemaRegistryDetached(st) ==
  LET fresh(a) == [a EXCEPT !.reg = [schemaNames |-> {}, schemaPointersByValue |-> EmptyMap,
                                     componentSchemas |-> a.ret[2]]]
  IN fresh(Alloc(st, Rec(<<>>)))

createSchemaRegistry(st) ==
  LET \* owner[key] = owner[key] || {}
      attach(a, owner, key) == SetSlot(a, owner, key, a.ret)
      ensure(s, owner, key) ==
        IF isObject(s.heap, GetKey(s.heap[owner], key)) THEN s
        ELSE attach(Alloc(s, Rec(<<>>)), owner, key)
      \* Object.entries(...).forEach: a later key of the same object wins
      lastIndexOf(n, id) == CHOOSE i \in DOMAIN n.e :
                              /\ n.e[i][2] = O(id)
                              /\ \A j \in DOMAIN n.e : n.e[j][2] = O(id) => j <= i
      seed(s, componentSchemas, n) ==
        [s EXCEPT !.reg = [schemaNames |-> KeysOf(n),
                           schemaPointersByValue |->
                             [id \in {n.e[i][2][2] :
                                        i \in {j \in DOMAIN n.e : isObject(s.heap, n.e[j][2])}}
                                |-> componentPointer(n.e[lastIndexOf(n, id)][1])],
                           componentSchemas |-> componentSchemas]]
      seedFrom(s, componentSchemas) == seed(s, componentSchemas, s.heap[componentSchemas])
      withSchemas(s, components) == seedFrom(s, GetKey(s.heap[components], "schemas")[2])
      withComponents(s, components) == withSchemas(ensure(s, components, "schemas"), components)
      start(s) == withComponents(s, GetKey(s.heap[st.root], "components")[2])
  IN start(ensure(st, st.root, "components"))

\* A faulty variant of registerSchemaInComponents that forgets the identity lookup.
registerSchemaInComponentsNoLookup(st, schema, preferredName) ==
  LET uniqueName == createUniqueSchemaName(preferredName, st.reg.schemaNames)
      pointer == componentPointer(uniqueName)
  IN [st EXCEPT !.reg.schemaNames = @ \cup {uniqueName},
                !.heap[st.reg.componentSchemas] = SetKey(@, uniqueName, O(schema)),
                !.reg.schemaPointersByValue = MapPut(@, schema, pointer),
                !.log.regs = Append(@, [obj |-> schema, preferred |-> preferredName,
                                        name |-> uniqueName, existed |-> FALSE,
                                        namesBefore |-> st.reg.schemaNames,
                                        keysBefore |-> KeysOf(st.heap[st.reg.componentSchemas])]),
                !.ret = P(pointer)]

\* A faulty variant of registerSchemaInComponents that takes the preferred name as it is.
registerSchemaInComponentsNoUnique(st, schema, preferredName) ==
  IF MapHas(st.reg.schemaPointersByValue, schema)
    THEN [st EXCEPT !.ret = P(st.reg.schemaPointersByValue[schema])]
    ELSE [st EXCEPT !.reg.schemaNames = @ \cup {preferredName},
                    !.heap[st.reg.componentSchemas] = SetKey(@, preferredName, O(schema)),
                    !.reg.schemaPointersByValue = MapPut(@, schema, componentPointer(preferredName)),
                    !.log.regs = Append(@, [obj |-> schema, preferred |-> preferredName,
                                            name |-> preferredName, existed |-> FALSE,
                                            namesBefore |-> st.reg.schemaNames,
                                            keysBefore |-> KeysOf(st.heap[st.reg.componentSchemas])]),
                    !.ret = P(componentPointer(preferredName))]

\* registerSchemaInComponents(registry, schema, preferredName); st.ret is the pointer
registerSchemaInComponents(st, schema, preferredName) ==
  IF MapHas(st.reg.schemaPointersByValue, schema)
    THEN [st EXCEPT !.ret = P(st.reg.schemaPointersByValue[schema]),
                    !.log.regs = Append(@, [obj |-> schema, preferred |-> preferredName,
                                            name |-> st.reg.schemaPointersByValue[schema][3],
                                            existed |-> TRUE,
                                            namesBefore |-> st.reg.schemaNames,
                                            keysBefore |-> KeysOf(st.heap[st.reg.componentSchemas])])]
    ELSE LET uniqueName == createUniqueSchemaName(preferredName, st.reg.schemaNames)
             pointer == componentPointer(uniqueName)
         IN [st EXCEPT !.reg.schemaNames = @ \cup {uniqueName},
                       !.heap[st.reg.componentSchemas] = SetKey(@, uniqueName, O(schema)),
                       !.reg.schemaPointersByValue = MapPut(@, schema, pointer),
                       !.log.regs = Append(@, [obj |-> schema, preferred |-> preferredName,
                                               name |-> uniqueName, existed |-> FALSE,
                                               namesBefore |-> st.reg.schemaNames,
                                               keysBefore |-> KeysOf(st.heap[st.reg.componentSchemas])]),
                       !.ret = P(pointer)]

\* decodeJsonPointerToken(pointer.split('/').at(-1) || '')
componentNameOf(pointerValue) == pointerValue[2][Len(pointerValue[2])]

---------------------------------------------------------------------------
(* External resolver (externalResolver.ts) *)

createExternalSchemaNameResolver ==
  [nameByValue |-> EmptyMap, namesByFingerprint |-> EmptyMap, canonicalByName |-> EmptyMap,
   canonicalByFingerprint |-> EmptyMap, schemaBySourcePath |-> EmptyMap,
   sourcePathsByBaseName |-> EmptyMap, componentNameBySourcePath |-> EmptyMap,
   sourcePathByValue |-> EmptyMap, sourcePathByComponentName |-> <<>>,
   loadingSourcePaths |-> {}]

addExternalNameCandidate(st, schema, schemaName) ==
  IF ~isLikelySchemaObject(st.heap, schema) THEN st
  ELSE LET names(fingerprint) == IF MapHas(st.res.namesByFingerprint, fingerprint)
                                   THEN st.res.namesByFingerprint[fingerprint] ELSE {}
           byName(fingerprint) == IF MapHas(st.res.canonicalByFingerprint, fingerprint)
                                    THEN st.res.canonicalByFingerprint[fingerprint] ELSE EmptyMap
           add(fingerprint) ==
             [st EXCEPT !.res.nameByValue = MapPut(@, schema, schemaName),
                        !.res.canonicalByName = MapPut(@, schemaName, schema),
                        !.res.namesByFingerprint =
                           MapPut(@, fingerprint, names(fingerprint) \cup {schemaName}),
                        !.res.canonicalByFingerprint =
                           MapPut(@, fingerprint, MapPut(byName(fingerprint), schemaName, schema))]
       IN add(createSchemaFingerprint(st.heap, schema))

registerExternalSourcePath(st, sourcePath, schema) ==
  IF ~isLikelySchemaObject(st.heap, schema) THEN st
  ELSE LET paths(baseName) == IF MapHas(st.res.sourcePathsByBaseName, baseName)
                                THEN st.res.sourcePathsByBaseName[baseName] ELSE {}
           add(baseName) ==
             [st EXCEPT !.res.schemaBySourcePath = MapPut(@, sourcePath, schema),
                        !.res.sourcePathByValue = MapPut(@, schema, sourcePath),
                        !.res.sourcePathsByBaseName =
                           MapPut(@, baseName, paths(baseName) \cup {sourcePath})]
       IN add(lowerBaseName(sourcePath))

NoCandidate == [ok |-> FALSE, name |-> "", schema |-> 0, via |-> "none"]
Candidate(name, schema, via) == [ok |-> TRUE, name |-> name, schema |-> schema, via |-> via]

\* A faulty variant of resolveExternalSchemaCandidate that takes some candidate of an
\* ambiguous fingerprint instead of none.
resolveExternalSchemaCandidateAny(h, res, schema) ==
  IF MapHas(res.nameByValue, schema) /\ MapHas(res.canonicalByName, res.nameByValue[schema])
    THEN Candidate(res.nameByValue[schema], res.canonicalByName[res.nameByValue[schema]], "identity")
  ELSE LET some(candidates, name) == Candidate(name, candidates[name], "fingerprint")
           any(candidates) == some(candidates, CHOOSE k \in DOMAIN candidates : TRUE)
           byFingerprint(fingerprint) ==
             IF ~MapHas(res.canonicalByFingerprint, fingerprint) THEN NoCandidate
             ELSE any(res.canonicalByFingerprint[fingerprint])
       IN byFingerprint(createSchemaFingerprint(h, schema))

resolveExternalSchemaCandidate(h, res, schema) ==
  IF MapHas(res.nameByValue, schema) /\ MapHas(res.canonicalByName, res.nameByValue[schema])
    THEN Candidate(res.nameByValue[schema], res.canonicalByName[res.nameByValue[schema]], "identity")
  ELSE LET only(candidates, name) == Candidate(name, candidates[name], "fingerprint")
           unique(candidates) ==
             IF Cardinality(DOMAIN candidates) # 1 THEN NoCandidate
             ELSE only(candidates, CHOOSE k \in DOMAIN candidates : TRUE)
           byFingerprint(fingerprint) ==
             IF ~MapHas(res.canonicalByFingerprint, fingerprint) THEN NoCandidate
             ELSE unique(res.canonicalByFingerprint[fingerprint])
       IN byFingerprint(createSchemaFingerprint(h, schema))

\* fingerprint -> the entries {name, schema} of the components whose name is an
\* external candidate; the entries of one fingerprint are kept as a set of pairs
buildExternalComponentFingerprintIndex(h, reg, res) ==
  LET fingerprintOf(id) == createSchemaFingerprint(h, id)
      index(n, eligible) ==
        [fp \in {fingerprintOf(n.e[i][2][2]) : i \in eligible} |->
           {<<n.e[i][1], n.e[i][2][2]>> :
              i \in {j \in eligible : fingerprintOf(n.e[j][2][2]) = fp}}]
      entries(n) == index(n, {i \in DOMAIN n.e : /\ MapHas(res.canonicalByName, n.e[i][1])
                                                  /\ isRecord(h, n.e[i][2])})
  IN entries(h[reg.componentSchemas])

resolveExternalComponentCandidate(h, index, schema) ==
  LET entry(m) == Candidate(m[1], m[2], "component")
      byFingerprint(fingerprint) ==
        IF ~MapHas(index, fingerprint) \/ Cardinality(index[fingerprint]) # 1 THEN NoCandidate
        ELSE entry(CHOOSE e \in index[fingerprint] : TRUE)
  IN byFingerprint(createSchemaFingerprint(h, schema))

\* A faulty variant of resolveMatchingSourcePath that settles an ambiguous base
\* name by taking one of the candidates.
resolveMatchingSourcePathAny(pathRef, baseName, res) ==
  IF ~MapHas(res.sourcePathsByBaseName, baseName) THEN NoPath
  ELSE CHOOSE sp \in res.sourcePathsByBaseName[baseName] : TRUE

\* pathRef is a file reference string, baseName its lower-cased base name
resolveMatchingSourcePath(pathRef, baseName, res) ==
  IF ~MapHas(res.sourcePathsByBaseName, baseName) THEN NoPath
  ELSE LET normalizedRef(dirs) == [i \in 1..Len(dirs) |-> <<toLowerCase(dirs[i]), "">>]
                                     \o << lowerBaseName(pathRef) >>
           withoutDot == IF pathRef.d # <<>> /\ Head(pathRef.d) = "." THEN Tail(pathRef.d)
                         ELSE pathRef.d
           single(paths) == IF Cardinality(paths) = 1 THEN CHOOSE sp \in paths : TRUE
                            ELSE NoPath
           exactSuffixMatches(candidates, ref) ==
             {sp \in candidates : ~pathRef.abs /\ EndsWith(LowerSegments(sp), ref)}
           match(candidates) ==
             IF Cardinality(candidates) = 1 THEN CHOOSE sp \in candidates : TRUE
             ELSE single(exactSuffixMatches(candidates, normalizedRef(withoutDot)))
       IN match(res.sourcePathsByBaseName[baseName])

---------------------------------------------------------------------------
(* Source resolution and the external file loader (sourceResolution.ts) *)

resolveSourcePathFromSchemaContext(st, pathRef, schema, schemaPointer) ==
  LET res == st.res
      byValue == IF MapHas(res.sourcePathByValue, schema) THEN res.sourcePathByValue[schema]
                 ELSE IF isComponentSchemaRootPointer(schemaPointer)
                         /\ OrderedHas(res.sourcePathByComponentName, schemaPointer[3])
                   THEN OrderedGet(res.sourcePathByComponentName, schemaPointer[3])
                 ELSE NoPath
      pathOf(candidateSchema) == IF MapHas(res.sourcePathByValue, candidateSchema)
                                   THEN res.sourcePathByValue[candidateSchema] ELSE NoPath
      only(c) == pathOf(c[CHOOSE k \in DOMAIN c : TRUE])
      byFingerprint(fingerprint) ==
        IF MapHas(res.canonicalByFingerprint, fingerprint)
           /\ Cardinality(DOMAIN res.canonicalByFingerprint[fingerprint]) = 1
          THEN only(res.canonicalByFingerprint[fingerprint])
          ELSE NoPath
      from(sourcePath) == IF sourcePath = NoPath THEN NoPath ELSE resolveFrom(sourcePath, pathRef)
      orElse(first) == IF first # NoPath THEN from(first)
                       ELSE from(byFingerprint(createSchemaFingerprint(st.heap, schema)))
  IN orElse(byValue)

\* What nestedParser.parse(sourcePath) yields: the file's root value, or a throw.
ParseResult(st, sourcePath) ==
  IF MapHas(st.fs, sourcePath) THEN st.fs[sourcePath] ELSE [kind |-> "throw", id |-> 0]

\* A return of ensureExternalSchemaForSourcePath: st.ret is the schema or
\* undefined; log.calls records the call, the exit it took and the paths that
\* are loading when it returns.
returnFromLoad(st, sourcePath, exit, r) ==
  [st EXCEPT !.ret = r,
             !.log.calls = Append(@, [path |-> sourcePath, exit |-> exit, ret |-> r,
                                      loading |-> st.res.loadingSourcePaths])]

\* ensureExternalSchemaForSourcePath up to its await: the cache lookup and the
\* re-entry guard.
loadEntry(res, sourcePath) ==
  IF MapHas(res.schemaBySourcePath, sourcePath) THEN "cached"
  ELSE IF sourcePath \in res.loadingSourcePaths THEN "guarded"
  ELSE "parse"

\* resolver.loadingSourcePaths.add(sourcePath), then the call of parse;
\* log.loads records the paths that are loading before and during the parse.
startParse(st, sourcePath) ==
  [st EXCEPT !.res.loadingSourcePaths = @ \cup {sourcePath},
             !.log.loads = Append(@, [path |-> sourcePath,
                                      before |-> st.res.loadingSourcePaths,
                                      during |-> st.res.loadingSourcePaths \cup {sourcePath},
                                      calls |-> Len(st.log.calls)])]

\* A faulty variant of settleParse whose catch block does not run the cleanup.
settleParseNoFinally(loading, sourcePath, parsed) ==
  LET done(s, exit, r) ==
        returnFromLoad([s EXCEPT !.res.loadingSourcePaths = @ \ {sourcePath}], sourcePath, exit, r)
  IN IF parsed.kind = "throw" THEN returnFromLoad(loading, sourcePath, "throw", Undef)
     ELSE IF loading.heap[parsed.id].arr \/ ~isLikelySchemaObject(loading.heap, parsed.id)
       THEN done(loading, "nonschema", Undef)
     ELSE done(registerExternalSourcePath(
                 addExternalNameCandidate(loading, parsed.id,
                                          createSchemaNameFromSourcePath(sourcePath)),
                 sourcePath, parsed.id),
               "loaded", O(parsed.id))

\* A faulty variant of settleParse that never takes the path out of
\* loadingSourcePaths.
settleParseLeavesLoading(loading, sourcePath, parsed) ==
  LET done(s, exit, r) == returnFromLoad(s, sourcePath, exit, r)
  IN IF parsed.kind = "throw" THEN done(loading, "throw", Undef)
     ELSE IF loading.heap[parsed.id].arr \/ ~isLikelySchemaObject(loading.heap, parsed.id)
       THEN done(loading, "nonschema", Undef)
     ELSE done(registerExternalSourcePath(
                 addExternalNameCandidate(loading, parsed.id,
                                          createSchemaNameFromSourcePath(sourcePath)),
                 sourcePath, parsed.id),
               "loaded", O(parsed.id))

\* ensureExternalSchemaForSourcePath from the settling of parse on: the rest of
\* the try block, the catch block and the finally block.
settleParse(loading, sourcePath, parsed) ==
  LET done(s, exit, r) ==
        returnFromLoad([s EXCEPT !.res.loadingSourcePaths = @ \ {sourcePath}], sourcePath, exit, r)
  IN IF parsed.kind = "throw" THEN done(loading, "throw", Undef)
     ELSE IF loading.heap[parsed.id].arr \/ ~isLikelySchemaObject(loading.heap, parsed.id)
       THEN done(loading, "nonschema", Undef)
     ELSE done(registerExternalSourcePath(
                 addExternalNameCandidate(loading, parsed.id,
                                          createSchemaNameFromSourcePath(sourcePath)),
                 sourcePath, parsed.id),
               "loaded", O(parsed.id))

\* A faulty variant of ensureExternalSchemaForSourcePath that has no cache lookup.
ensureExternalSchemaForSourcePathNoCache(st, sourcePath) ==
  IF sourcePath \in st.res.loadingSourcePaths
    THEN returnFromLoad(st, sourcePath, "guarded", Undef)
    ELSE settleParse(startParse(st, sourcePath), sourcePath, ParseResult(st, sourcePath))

\* ensureExternalSchemaForSourcePath called and awaited with no other caller
\* of the resolver running meanwhile.
ensureExternalSchemaForSourcePath(st, sourcePath) ==
  IF loadEntry(st.res, sourcePath) = "cached"
    THEN returnFromLoad(st, sourcePath, "cached", O(st.res.schemaBySourcePath[sourcePath]))
  ELSE IF loadEntry(st.res, sourcePath) = "guarded"
    THEN returnFromLoad(st, sourcePath, "guarded", Undef)
  ELSE settleParse(startParse(st, sourcePath), sourcePath, ParseResult(st, sourcePath))

\* The shared tail of ensureComponentPointerForSourcePath and
\* resolveDiscriminatorMappingPointer: register the loaded schema and record
\* its component name for the source path.
registerLoadedSourcePath(st, sourcePath, externalSchema) ==
  LET preferredName == IF MapHas(st.res.componentNameBySourcePath, sourcePath)
                         THEN st.res.componentNameBySourcePath[sourcePath]
                         ELSE createSchemaNameFromSourcePath(sourcePath)
      record(st1, componentName) ==
        [st1 EXCEPT !.res.componentNameBySourcePath = MapPut(@, sourcePath, componentName),
                    !.res.sourcePathByComponentName = OrderedPut(@, componentName, sourcePath)]
      registered(st1) == record(st1, componentNameOf(st1.ret))
  IN registered(registerSchemaInComponents(st, externalSchema, preferredName))

ensureComponentPointerForSourcePath(st, sourcePath) ==
  LET loaded(st1) == IF st1.ret = Undef THEN st1
                     ELSE registerLoadedSourcePath(st1, sourcePath, st1.ret[2])
  IN loaded(ensureExternalSchemaForSourcePath(st, sourcePath))

resolveDiscriminatorMappingPointer(st, mappingValue, schema, schemaPointer) ==
  IF mappingValue[1] = "p" /\ startsWithComponentPrefix(mappingValue[2])
    THEN [st EXCEPT !.ret = mappingValue]
  ELSE IF ~looksLikeExternalFileReference(mappingValue) THEN [st EXCEPT !.ret = Undef]
  ELSE LET withoutFragment == [mappingValue[2] EXCEPT !.h = FALSE]
           fallback(fallbackName) ==
             IF HasKey(st.heap[st.reg.componentSchemas], fallbackName)
               THEN [st EXCEPT !.ret = P(componentPointer(fallbackName))]
               ELSE [st EXCEPT !.ret = Undef]
           loaded(st1, sourcePath) ==
             IF st1.ret = Undef THEN st1
             ELSE registerLoadedSourcePath(st1, sourcePath, st1.ret[2])
           resolve(sourcePath) ==
             IF sourcePath = NoPath
               THEN fallback(createSchemaNameFromSourcePath(withoutFragment))
               ELSE loaded(ensureExternalSchemaForSourcePath(st, sourcePath), sourcePath)
           orElse(matching) ==
             IF matching # NoPath THEN resolve(matching)
             ELSE resolve(resolveSourcePathFromSchemaContext(st, withoutFragment, schema,
                                                            schemaPointer))
       IN orElse(resolveMatchingSourcePath(withoutFragment, lowerBaseName(withoutFragment),
                                           st.res))

---------------------------------------------------------------------------
(* Visitors of the rewrite passes (rewritePasses.ts, registry.ts).  par = 0   *)
(* stands for "no parent" (the root).                                         *)

\* collectSchemaTargets: st.acc is the set `found`, st.externalSchemas the map
visitCollectTargets(st, value, pointer, inSchemaContext) ==
  IF ~inSchemaContext \/ ~MapHas(st.externalSchemas, value) \/ startsWithComponentPrefix(pointer)
    THEN st
    ELSE [st EXCEPT !.acc = @ \cup {value}]

\* A faulty variant of visitLocalRef that registers the target and keeps the ref.
visitLocalRefRegisterOnly(st, value, pointer, inSchemaContext) ==
  LET ref == GetKey(st.heap[value], "$ref")
  IN IF ~inSchemaContext \/ st.heap[value].arr \/ ~IsString(ref) THEN st
     ELSE IF ref[1] # "p" \/ startsWithComponentPrefix(ref[2]) THEN st
     ELSE LET resolved == resolveLocalPointer(st.heap, st.root, ref[2])
          IN IF ~isRecord(st.heap, resolved) THEN st
             ELSE registerSchemaInComponents(st, resolved[2], createSchemaNameFromPointer(ref[2]))

\* rewriteLocalSchemaRefsToComponents, the visitor
visitLocalRef(st, value, pointer, inSchemaContext) ==
  LET ref == GetKey(st.heap[value], "$ref")
  IN IF ~inSchemaContext \/ st.heap[value].arr \/ ~IsString(ref) THEN st
     ELSE IF ref[1] # "p" \/ startsWithComponentPrefix(ref[2]) THEN st
     ELSE LET resolved == resolveLocalPointer(st.heap, st.root, ref[2])
          IN IF ~isRecord(st.heap, resolved) THEN st
             ELSE LET rewrite(st1) ==
                        IF ref # st1.ret
                          THEN [st1 EXCEPT !.heap[value] = SetKey(@, "$ref", st1.ret)]
                          ELSE st1
                      register(externalMatch) ==
                        rewrite(registerSchemaInComponents(
                                  st,
                                  IF externalMatch.ok THEN externalMatch.schema ELSE resolved[2],
                                  IF externalMatch.ok THEN externalMatch.name
                                  ELSE createSchemaNameFromPointer(ref[2])))
                  IN register(resolveExternalSchemaCandidate(st.heap, st.res, resolved[2]))

\* A faulty variant of refReplacement that builds the bare { $ref }.
refReplacementBare(h, pointerValue, from) == Rec(<< <<"$ref", pointerValue>> >>)

\* { $ref: componentPointer } plus the string summary / description of `from`
refReplacement(h, pointerValue, from) ==
  LET summary == GetKey(h[from], "summary")
      description == GetKey(h[from], "description")
  IN Rec(<< <<"$ref", pointerValue>> >>
         \o (IF IsString(summary) THEN << <<"summary", summary>> >> ELSE <<>>)
         \o (IF IsString(description) THEN << <<"description", description>> >> ELSE <<>>))

isEquivalentRefReplacement(h, value, replacement) ==
  /\ GetKey(h[value], "$ref") = GetKey(replacement, "$ref")
  /\ GetKey(h[value], "summary") = GetKey(replacement, "summary")
  /\ GetKey(h[value], "description") = GetKey(replacement, "description")
  /\ KeysOf(h[value]) \subseteq REF_REPLACEMENT_ALLOWED_KEYS

\* What the history keeps of one replacement of parent[parentKey].
ReplEntry(st, pass, value, pointer, replacement, via) ==
  [pass |-> pass, old |-> value, at |-> pointer, via |-> via,
   oldSummary |-> GetKey(st.heap[value], "summary"),
   oldDescription |-> GetKey(st.heap[value], "description"),
   newSummary |-> GetKey(replacement, "summary"),
   newDescription |-> GetKey(replacement, "description"),
   newRef |-> GetKey(replacement, "$ref"),
   identity |-> MapHas(st.res.nameByValue, value),
   names |-> LET fp == createSchemaFingerprint(st.heap, value)
             IN IF MapHas(st.res.namesByFingerprint, fp) /\ ~st.heap[value].arr
                  THEN st.res.namesByFingerprint[fp] ELSE {}]

visitInlineExternal(st, value, pointer, inSchemaContext, par, parentKey) ==
  IF ~inSchemaContext \/ isComponentSchemaRootPointer(pointer) \/ par = 0 \/ st.heap[value].arr
    THEN st
  ELSE LET assign(a, entry) ==
             [SetSlot(a, par, parentKey, a.ret) EXCEPT !.changed = TRUE,
                                                       !.log.repl = Append(@, entry)]
           replace(st1, replacement, via) ==
             IF isEquivalentRefReplacement(st1.heap, value, replacement) THEN st1
             ELSE assign(Alloc(st1, replacement),
                         ReplEntry(st1, "inline", value, pointer, replacement, via))
           registered(st1, via) == replace(st1, refReplacement(st1.heap, st1.ret, value), via)
           select(selected) ==
             IF ~selected.ok THEN st
             ELSE registered(registerSchemaInComponents(st, selected.schema, selected.name),
                             selected.via)
           orComponent(matched) ==
             IF matched.ok THEN select(matched)
             ELSE select(resolveExternalComponentCandidate(st.heap, st.index, value))
       IN orComponent(resolveExternalSchemaCandidate(st.heap, st.res, value))

\* rewriteDiscriminatorMappings, the collecting traversal: st.acc is mappingsToRewrite
visitDiscriminator(st, value, pointer, inSchemaContext) ==
  LET discriminator == GetKey(st.heap[value], "discriminator")
      mapping == Prop(st.heap, discriminator, "mapping")
      wanted(e) == IsString(e[2]) /\ looksLikeExternalFileReference(e[2])
      entries == SelectSeq(st.heap[mapping[2]].e, wanted)
  IN IF ~inSchemaContext \/ st.heap[value].arr \/ ~isRecord(st.heap, discriminator) THEN st
     ELSE IF ~isRecord(st.heap, mapping) THEN st
     ELSE [st EXCEPT !.acc = @ \o [i \in DOMAIN entries |->
                                     [schema |-> value, schemaPointer |-> pointer,
                                      mapping |-> mapping[2], mappingKey |-> entries[i][1],
                                      mappingValue |-> entries[i][2]]],
                     !.log.steps = Append(@, "collect")]

\* A faulty variant of visitReplaceHoisted that assigns to record parents only.
visitReplaceHoistedInRecords(st, value, pointer, inSchemaContext, par, parentKey) ==
  IF ~inSchemaContext \/ par = 0 \/ st.heap[par].arr THEN st
  ELSE IF ~MapHas(st.reg.schemaPointersByValue, value) THEN st
  ELSE LET componentPtr == st.reg.schemaPointersByValue[value]
       IN IF pointer = componentPtr \/ isComponentSchemaRootPointer(pointer) THEN st
          ELSE LET replacement == Rec(<< <<"$ref", P(componentPtr)>> >>)
                   assign(a) ==
                     [SetSlot(a, par, parentKey, a.ret) EXCEPT
                        !.log.repl = Append(@, ReplEntry(st, "dedupe", value, pointer,
                                                         replacement, "registry"))]
               IN assign(Alloc(st, replacement))

\* replaceHoistedObjectsWithRefs, the visitor
visitReplaceHoisted(st, value, pointer, inSchemaContext, par, parentKey) ==
  IF ~inSchemaContext \/ par = 0 THEN st
  ELSE IF ~MapHas(st.reg.schemaPointersByValue, value) THEN st
  ELSE LET componentPtr == st.reg.schemaPointersByValue[value]
       IN IF pointer = componentPtr \/ isComponentSchemaRootPointer(pointer) THEN st
          ELSE LET replacement == Rec(<< <<"$ref", P(componentPtr)>> >>)
                   assign(a) ==
                     [SetSlot(a, par, parentKey, a.ret) EXCEPT
                        !.log.repl = Append(@, ReplEntry(st, "dedupe", value, pointer,
                                                         replacement, "registry"))]
               IN assign(Alloc(st, replacement))

\* A visitor that changes nothing: every visit, for stating properties.
visitObserve(st, value, pointer, inSchemaContext, par, parentKey) ==
  [st EXCEPT !.acc = @ \cup {[id |-> value, at |-> pointer, ctx |-> inSchemaContext,
                              par |-> par, key |-> parentKey]}]

Visit(pass, st, value, pointer, inSchemaContext, par, parentKey) ==
  CASE pass = "collect" -> visitCollectTargets(st, value, pointer, inSchemaContext)
    [] pass = "local" -> visitLocalRef(st, value, pointer, inSchemaContext)
    [] pass = "inline" -> visitInlineExternal(st, value, pointer, inSchemaContext, par, parentKey)
    [] pass = "disc" -> visitDiscriminator(st, value, pointer, inSchemaContext)
    [] pass = "dedupe" -> visitReplaceHoisted(st, value, pointer, inSchemaContext, par, parentKey)
    [] OTHER -> visitObserve(st, value, pointer, inSchemaContext, par, parentKey)

---------------------------------------------------------------------------
(* walk (walk.ts): the visitor runs before the descent; `seen` holds the      *)
(* objects on the current path; a record's entries are those it had when the  *)
(* descent began, an array's elements are read as they are reached.           *)

RECURSIVE walk(_, _, _, _, _, _, _, _)
RECURSIVE walkChildren(_, _, _, _, _, _, _, _)

\* A faulty variant of walk that tests `seen` before it calls the visitor.
walkSkippingRepeats(pass, st, value, inSchemaContext, pointer, seen, par, parentKey) ==
  IF ~isObject(st.heap, value) \/ value[2] \in seen THEN st
  ELSE LET descend(visited) ==
             walkChildren(pass, visited, value[2], visited.heap[value[2]].e, 1,
                          inSchemaContext, pointer, seen \cup {value[2]})
       IN descend(Visit(pass, st, value[2], pointer, inSchemaContext, par, parentKey))

walk(pass, st, value, inSchemaContext, pointer, seen, par, parentKey) ==
  IF ~isObject(st.heap, value) THEN st
  ELSE LET descend(visited) ==
             IF value[2] \in seen THEN visited
             ELSE walkChildren(pass, visited, value[2], visited.heap[value[2]].e, 1,
                               inSchemaContext, pointer, seen \cup {value[2]})
       IN descend(Visit(pass, st, value[2], pointer, inSchemaContext, par, parentKey))

\* A faulty variant of walkChildren that takes x-doc-refs for a schema context key.
walkChildrenDocRefsAsSchemas(pass, st, value, entries, i, inSchemaContext, pointer, seen) ==
  IF i > Len(entries) THEN st
  ELSE LET key == entries[i][1]
           isArr == st.heap[value].arr
           child == IF isArr THEN st.heap[value].e[i][2] ELSE entries[i][2]
           childInSchemaContext ==
             IF isArr THEN inSchemaContext
             ELSE inSchemaContext \/ key \in SCHEMA_CONTEXT_KEYS \cup {"x-doc-refs"}
           after == walk(pass, st, child, childInSchemaContext, Append(pointer, key), seen,
                         value, key)
       IN walkChildren(pass, after, value, entries, i + 1, inSchemaContext, pointer, seen)

walkChildren(pass, st, value, entries, i, inSchemaContext, pointer, seen) ==
  IF i > Len(entries) THEN st
  ELSE LET key == entries[i][1]
           isArr == st.heap[value].arr
           child == IF isArr THEN st.heap[value].e[i][2] ELSE entries[i][2]
           childInSchemaContext == IF isArr THEN inSchemaContext
                                   ELSE inSchemaContext \/ key \in SCHEMA_CONTEXT_KEYS
           after == walk(pass, st, child, childInSchemaContext, Append(pointer, key), seen,
                         value, key)
       IN walkChildren(pass, after, value, entries, i + 1, inSchemaContext, pointer, seen)

\* A faulty variant of walkRoot that starts in a schema context.
walkRootInSchemaContext(pass, st) == walk(pass, st, O(st.root), TRUE, <<>>, {}, 0, "")

\* walk(root, false, '#', new WeakSet(), visitor)
walkRoot(pass, st) == walk(pass, st, O(st.root), FALSE, <<>>, {}, 0, "")

\* Every visit the walker makes of the document in heap h.
Visits(h, rootId) ==
  walkRoot("observe", [heap |-> h, root |-> rootId, acc |-> {}]).acc

---------------------------------------------------------------------------
(* The passes (rewritePasses.ts, registry.ts) *)

\* String.prototype.localeCompare on the source paths of the model: the rank
\* of a path in their collation order.
PathCollation ==
  << Path(<<"spec", "b">>, "Pet", "yaml"), Path(<<"spec">>, "Entry", "yaml"),
     Path(<<"spec">>, "EventBase", "yaml"),
     Path(<<"spec">>, "Id", "yaml"), Path(<<"spec">>, "Note", "yaml"),
     Path(<<"spec">>, "Pet", "yaml"), Path(<<"spec">>, "RefA", "yaml"),
     Path(<<"spec">>, "RefB", "yaml"), Path(<<"spec">>, "UserA", "yaml"),
     Path(<<"spec">>, "UserB", "yaml") >>
localeRank(path) == CHOOSE i \in DOMAIN PathCollation : PathCollation[i] = path

RECURSIVE sortBySourcePath(_, _)
\* A faulty variant of sortBySourcePath that sorts in descending order.
sortBySourcePathDescending(found, externalSchemas) ==
  IF found = {} THEN <<>>
  ELSE LET first == CHOOSE v \in found :
                      \A w \in found : localeRank(externalSchemas[v]) >= localeRank(externalSchemas[w])
       IN << [value |-> first, sourcePath |-> externalSchemas[first]] >>
          \o sortBySourcePath(found \ {first}, externalSchemas)

\* [...found.entries()].sort((a, b) => a.sourcePath.localeCompare(b.sourcePath))
sortBySourcePath(found, externalSchemas) ==
  IF found = {} THEN <<>>
  ELSE LET first == CHOOSE v \in found :
                      \A w \in found : localeRank(externalSchemas[v]) <= localeRank(externalSchemas[w])
       IN << [value |-> first, sourcePath |-> externalSchemas[first]] >>
          \o sortBySourcePath(found \ {first}, externalSchemas)

collectSchemaTargets(st, externalSchemas) ==
  sortBySourcePath(walkRoot("collect", [st EXCEPT !.acc = {},
                                                  !.externalSchemas = externalSchemas]).acc,
                   externalSchemas)

rewriteLocalSchemaRefsToComponents(st) == walkRoot("local", st)

RECURSIVE rewriteInlineExternalLoop(_, _)
rewriteInlineExternalLoop(st, fuel) ==
  IF fuel = 0 THEN [st EXCEPT !.log.exhausted = TRUE]
  ELSE LET \* log.trail: the document and the component names after each iteration
           \* that changed the document
           noted(walked) ==
             [walked EXCEPT !.log.trail =
                Append(@, [doc |-> DeepValue(walked.heap, O(walked.root), {}, <<>>),
                           names |-> walked.reg.schemaNames])]
           again(walked) ==
             IF walked.changed THEN rewriteInlineExternalLoop(noted(walked), fuel - 1)
             ELSE walked
       IN again(walkRoot("inline",
                         [st EXCEPT !.changed = FALSE,
                                    !.index = buildExternalComponentFingerprintIndex(
                                                st.heap, st.reg, st.res)]))

\* resolver.sourcePathsByBaseName.get(baseName) for the base name of pathRef
knownSourcePaths(res, pathRef) ==
  IF MapHas(res.sourcePathsByBaseName, lowerBaseName(pathRef))
    THEN res.sourcePathsByBaseName[lowerBaseName(pathRef)] ELSE {}

RECURSIVE rewriteMappings(_, _, _)
\* A faulty variant of rewriteMappings that assigns whatever was resolved.
rewriteMappingsAssignAlways(st, mappingsToRewrite, i) ==
  IF i > Len(mappingsToRewrite) THEN st
  ELSE LET rewrite == mappingsToRewrite[i]
           assign(st1) ==
             [SetSlot(st1, rewrite.mapping, rewrite.mappingKey, st1.ret) EXCEPT !.changed = FALSE]
           logged(st1, st2) ==
             [st2 EXCEPT !.log.steps = Append(@, "rewrite"), !.log.mapped =
                Append(@, [mapping |-> rewrite.mapping, key |-> rewrite.mappingKey,
                           before |-> GetKey(st.heap[rewrite.mapping], rewrite.mappingKey),
                           pointer |-> st1.ret, calls |-> Len(st.log.calls),
                           known |-> knownSourcePaths(st.res, rewrite.mappingValue[2]),
                           matched |-> resolveMatchingSourcePath(
                                         rewrite.mappingValue[2],
                                         lowerBaseName(rewrite.mappingValue[2]), st.res),
                           context |-> resolveSourcePathFromSchemaContext(
                                         st, rewrite.mappingValue[2], rewrite.schema,
                                         rewrite.schemaPointer),
                           fallback |-> HasKey(st.heap[st.reg.componentSchemas],
                                               createSchemaNameFromSourcePath(
                                                 rewrite.mappingValue[2])),
                           after |-> GetKey(st2.heap[rewrite.mapping], rewrite.mappingKey)])]
           resolved(st1) == logged(st1, assign(st1))
       IN rewriteMappings(resolved(resolveDiscriminatorMappingPointer(
                                     st, rewrite.mappingValue, rewrite.schema,
                                     rewrite.schemaPointer)),
                          mappingsToRewrite, i + 1)

rewriteMappings(st, mappingsToRewrite, i) ==
  IF i > Len(mappingsToRewrite) THEN st
  ELSE LET rewrite == mappingsToRewrite[i]
           assign(st1) ==
             IF st1.ret # Undef /\ GetKey(st1.heap[rewrite.mapping], rewrite.mappingKey) # st1.ret
               THEN [SetSlot(st1, rewrite.mapping, rewrite.mappingKey, st1.ret)
                       EXCEPT !.changed = TRUE]
               ELSE st1
           \* log.mapped: the entry, what was resolved for it, and its value afterwards
           logged(st1, st2) ==
             [st2 EXCEPT !.log.steps = Append(@, "rewrite"), !.log.mapped =
                Append(@, [mapping |-> rewrite.mapping, key |-> rewrite.mappingKey,
                           before |-> GetKey(st.heap[rewrite.mapping], rewrite.mappingKey),
                           pointer |-> st1.ret, calls |-> Len(st.log.calls),
                           known |-> knownSourcePaths(st.res, rewrite.mappingValue[2]),
                           matched |-> resolveMatchingSourcePath(
                                         rewrite.mappingValue[2],
                                         lowerBaseName(rewrite.mappingValue[2]), st.res),
                           context |-> resolveSourcePathFromSchemaContext(
                                         st, rewrite.mappingValue[2], rewrite.schema,
                                         rewrite.schemaPointer),
                           fallback |-> HasKey(st.heap[st.reg.componentSchemas],
                                               createSchemaNameFromSourcePath(
                                                 rewrite.mappingValue[2])),
                           after |-> GetKey(st2.heap[rewrite.mapping], rewrite.mappingKey)])]
           resolved(st1) == logged(st1, assign(st1))
       IN rewriteMappings(resolved(resolveDiscriminatorMappingPointer(
                                     st, rewrite.mappingValue, rewrite.schema,
                                     rewrite.schemaPointer)),
                          mappingsToRewrite, i + 1)

RECURSIVE rewriteDiscriminatorLoop(_, _)
rewriteDiscriminatorLoop(st, fuel) ==
  IF fuel = 0 THEN [st EXCEPT !.log.exhausted = TRUE]
  ELSE LET again(rewritten) ==
             IF rewritten.changed THEN rewriteDiscriminatorLoop(rewritten, fuel - 1)
             ELSE rewritten
           rewriteAll(collected) == again(rewriteMappings(collected, collected.acc, 1))
       IN rewriteAll(walkRoot("disc", [st EXCEPT !.changed = FALSE, !.acc = <<>>,
                                                 !.log.steps = Append(@, "iteration")]))

\* rewriteFromSourceTemplate; st.ret is the rewritten node
RECURSIVE rewriteFromSourceTemplate(_, _, _, _)
RECURSIVE rewriteTemplateArray(_, _, _, _, _, _)
RECURSIVE rewriteTemplateRecord(_, _, _, _, _, _)

rewriteFromSourceTemplate(st, sourceNode, bundledNode, sourcePath) ==
  IF ~isRecord(st.heap, sourceNode) \/ ~isRecord(st.heap, bundledNode)
    THEN IF isArray(st.heap, sourceNode) /\ isArray(st.heap, bundledNode)
           THEN LET elements(a) ==
                      rewriteTemplateArray(a, a.ret[2], st.heap[sourceNode[2]].e, 1, sourcePath,
                                           a.ret)
                IN elements(Alloc(st, st.heap[bundledNode[2]]))
           ELSE [st EXCEPT !.ret = bundledNode]
  ELSE LET ref == GetKey(st.heap[sourceNode[2]], "$ref")
           \* const next = { ...bundledNode }, then its entries
           entries(copy) ==
             rewriteTemplateRecord(copy, copy.ret[2], st.heap[sourceNode[2]].e, 1, sourcePath,
                                   copy.ret)
           logged(a, entry) == [a EXCEPT !.log.repl = Append(@, entry)]
           replaceBy(pointed, replacement) ==
             logged(Alloc(pointed, replacement),
                    ReplEntry(pointed, "template", bundledNode[2], <<>>, replacement, "source"))
           \* log.kept: a node whose source $ref yielded no component pointer
           kept(copied) ==
             [copied EXCEPT !.log.kept =
                Append(@, [ref |-> ref, calls |-> Len(st.log.calls),
                           before |-> DeepValue(st.heap, bundledNode, {}, <<>>),
                           after |-> DeepValue(copied.heap, copied.ret, {}, <<>>)])]
           restore(pointed) ==
             IF pointed.ret # Undef
               THEN replaceBy(pointed, refReplacement(pointed.heap, pointed.ret, bundledNode[2]))
               ELSE kept(entries(Alloc(pointed, st.heap[bundledNode[2]])))
       IN IF IsString(ref) /\ looksLikeExternalFileReference(ref)
            THEN restore(ensureComponentPointerForSourcePath(
                           st, resolveSourcePathFromSourceRef(sourcePath, ref[2])))
            ELSE entries(Alloc(st, st.heap[bundledNode[2]]))

\* for (let i = 0; i < sourceNode.length; i += 1) { if (i >= next.length) break; ... }
rewriteTemplateArray(st, next, sourceEntries, i, sourcePath, result) ==
  IF i > Len(sourceEntries) \/ i > Len(st.heap[next].e) THEN [st EXCEPT !.ret = result]
  ELSE LET assign(r) == SetSlot(r, next, sourceEntries[i][1], r.ret)
       IN rewriteTemplateArray(assign(rewriteFromSourceTemplate(
                                        st, sourceEntries[i][2], st.heap[next].e[i][2],
                                        sourcePath)),
                               next, sourceEntries, i + 1, sourcePath, result)

\* A faulty variant of rewriteTemplateRecord that does not skip the keys the
\* bundled node lacks.
rewriteTemplateRecordAllKeys(st, next, sourceEntries, i, sourcePath, result) ==
  IF i > Len(sourceEntries) THEN [st EXCEPT !.ret = result]
  ELSE LET key == sourceEntries[i][1]
           assign(r) == SetSlot(r, next, key, r.ret)
       IN rewriteTemplateRecord(assign(rewriteFromSourceTemplate(
                                         st, sourceEntries[i][2], GetKey(st.heap[next], key),
                                         sourcePath)),
                                next, sourceEntries, i + 1, sourcePath, result)

\* for (const [key, sourceChild] of Object.entries(sourceNode)) { if (!(key in next)) continue; ... }
rewriteTemplateRecord(st, next, sourceEntries, i, sourcePath, result) ==
  IF i > Len(sourceEntries) THEN [st EXCEPT !.ret = result]
  ELSE IF ~HasKey(st.heap[next], sourceEntries[i][1])
    THEN rewriteTemplateRecord(st, next, sourceEntries, i + 1, sourcePath, result)
  ELSE LET key == sourceEntries[i][1]
           assign(r) == SetSlot(r, next, key, r.ret)
       IN rewriteTemplateRecord(assign(rewriteFromSourceTemplate(
                                         st, sourceEntries[i][2], GetKey(st.heap[next], key),
                                         sourcePath)),
                                next, sourceEntries, i + 1, sourcePath, result)

RECURSIVE rewriteTemplatePairs(_, _, _)
rewriteTemplatePairs(st, componentSourcePairs, i) ==
  IF i > Len(componentSourcePairs) THEN st
  ELSE LET componentName == componentSourcePairs[i][1]
           sourcePath == componentSourcePairs[i][2]
           assign(r) == SetSlot(r, r.reg.componentSchemas, componentName, r.ret)
           rewritePair(loaded, sourceSchema, bundledSchema) ==
             IF ~isRecord(loaded.heap, sourceSchema) \/ ~isRecord(loaded.heap, bundledSchema)
               THEN loaded
               ELSE assign(rewriteFromSourceTemplate(loaded, sourceSchema, bundledSchema,
                                                     sourcePath))
           withSource(loaded) ==
             rewritePair(loaded, loaded.ret,
                         GetKey(loaded.heap[loaded.reg.componentSchemas], componentName))
       IN rewriteTemplatePairs(withSource(ensureExternalSchemaForSourcePath(st, sourcePath)),
                               componentSourcePairs, i + 1)

rewriteSchemaRefsFromSourceTemplates(st) ==
  LET reassign(done, components) ==
        IF isRecord(done.heap, components)
          THEN SetSlot(done, components[2], "schemas", O(done.reg.componentSchemas))
          ELSE done
      finish(done) == reassign(done, GetKey(done.heap[done.root], "components"))
  IN finish(rewriteTemplatePairs(st, st.res.sourcePathByComponentName, 1))

replaceHoistedObjectsWithRefs(st) == walkRoot("dedupe", st)

---------------------------------------------------------------------------
(* Input documents.  A bundled document has two operations p1 and p2 with one *)
(* schema site each; the sites are filled from a menu of objects.  The files  *)
(* the bundler loaded are /spec/{Pet,Id,UserA,UserB,EventBase,Note}.yaml and  *)
(* /spec/b/Pet.yaml; the files N1.yaml, N2.yaml, ... are on disk only and     *)
(* each references the next one; Gone.yaml is nowhere.  The document carries a top-level           *)
(* x-doc-refs array whose entries point to markdown files.  Entry.yaml is a   *)
(* loaded file with the shape of such an entry; RefA.yaml and RefB.yaml are   *)
(* loaded files that hold nothing but a component ref to each other.  A       *)
(* component the document came with may hold the object of Id.yaml in its     *)
(* properties.                                                                *)

MaxPre == 2        \* pre-existing components named Pet, Pet_2, ...
MaxChain == 4      \* files N1 .. N<MaxChain> on disk
MaxIterations == 6 \* iterations allowed to a fixpoint loop of a pass
Rounds == 2        \* for (let i = 0; i < 2; i += 1)

Ids ==
  [root |-> 1, paths |-> 2, item1 |-> 3, item2 |-> 4, components |-> 5, schemas |-> 6,
   docRefs |-> 7, docPurpose |-> 8, docAuth |-> 9,
   pet |-> 10, petProps |-> 11, id |-> 12, petb |-> 13, petbRequired |-> 14, ua |-> 15,
   ub |-> 16, eb |-> 17, ebDiscriminator |-> 18, ebMapping |-> 19, note |-> 20,
   petclone |-> 21, petcloneProps |-> 22, petcloneId |-> 23, uclone |-> 24, plain |-> 25,
   ref1 |-> 26, dangling |-> 27, withex |-> 28, withexExample |-> 29, mediaExample |-> 30,
   noteFile |-> 31, refA |-> 32, refB |-> 33, entryFile |-> 34, pre |-> 35, holderProps |-> 39,
   chain |-> 40]

ChainRoot(i) == Ids.chain + 5 * (i - 1)
FirstFreeId == ChainRoot(MaxChain + 2)

SpecDir == <<"spec">>
RootPath == Path(SpecDir, "openapi", "yaml")
PetPath == Path(SpecDir, "Pet", "yaml")
IdPath == Path(SpecDir, "Id", "yaml")
PetBPath == Path(<<"spec", "b">>, "Pet", "yaml")
UserAPath == Path(SpecDir, "UserA", "yaml")
UserBPath == Path(SpecDir, "UserB", "yaml")
EventBasePath == Path(SpecDir, "EventBase", "yaml")
NotePath == Path(SpecDir, "Note", "yaml")
ChainPath(i) == Path(SpecDir, ChainBase(i), "yaml")

RelativeRef(base) == F(FileRef("", FALSE, <<>>, base, "yaml", FALSE))
DotRelativeRef(base) == F(FileRef("", FALSE, <<".">>, base, "yaml", FALSE))
\* './docs/<base>.md'
MarkdownRef(base) == F(FileRef("", FALSE, <<".", "docs">>, base, "md", FALSE))

PreName(i) == IF i = 1 THEN "Pet" ELSE "Pet_" \o ToString(i)

SiteKinds1 == {"pet", "petb", "ua", "uclone", "eb", "note", "plain", "petclone", "withex",
               "refA"}
SiteKinds2 == {"pet", "petb", "ua", "uclone", "petclone", "plain", "note", "ref1", "dangling",
               "refB", "docAuth"}

SiteObject(kind) ==
  CASE kind = "pet" -> Ids.pet
    [] kind = "petb" -> Ids.petb
    [] kind = "ua" -> Ids.ua
    [] kind = "eb" -> Ids.eb
    [] kind = "note" -> Ids.note
    [] kind = "plain" -> Ids.plain
    [] kind = "petclone" -> Ids.petclone
    [] kind = "uclone" -> Ids.uclone
    [] kind = "withex" -> Ids.withex
    [] kind = "ref1" -> Ids.ref1
    [] kind = "dangling" -> Ids.dangling
    [] kind = "refA" -> Ids.refA
    [] kind = "refB" -> Ids.refB
    [] kind = "docAuth" -> Ids.docAuth

Configs ==
  {c \in [ver : {"3.0.3", "3.1.0", "2.0"}, hasRefs : BOOLEAN,
          loaded : {"none", "all", "rev", "one", "docs", "cycle"},
          s1 : SiteKinds1, s2 : SiteKinds2, pre : 0..MaxPre, chain : 0..MaxChain,
          chainMap : BOOLEAN, nested : BOOLEAN] :
     /\ (c.ver # "3.0.3" \/ ~c.hasRefs \/ c.loaded = "none")
          => c.s1 \in {"pet", "plain"} /\ c.s2 \in {"ref1", "uclone"} /\ c.pre <= 1 /\ c.chain = 0
     /\ ~c.hasRefs => c.loaded = "none"
     /\ c.loaded \in {"rev", "one", "docs", "cycle"} => c.pre = 0 /\ c.chain = 0
     /\ c.chain > 0 => c.s1 = "eb" /\ c.s2 \in {"plain", "pet"} /\ c.pre = 0
     /\ c.chainMap => c.chain > 0
     /\ c.nested => /\ c.ver = "3.0.3" /\ c.hasRefs /\ c.loaded = "all"
                    /\ c.s1 \in {"plain", "pet"} /\ c.s2 = "plain" /\ c.pre = 1
     /\ (c.s1 = "refA" \/ c.s2 = "refB") <=> c.loaded = "cycle"
     /\ c.loaded = "cycle" => c.s1 \in {"refA", "plain"} /\ c.s2 \in {"refB", "plain"} /\ c.pre = 0
     /\ c.s2 = "docAuth" => c.loaded \in {"docs", "none"}
     /\ c.loaded = "docs" => c.s1 \in {"pet", "plain"} /\ c.s2 \in {"docAuth", "pet"} /\ c.pre = 0}

LibraryNode(c, i) ==
  CASE i = Ids.root ->
         Rec(<< <<"openapi", S(c.ver)>>, <<"x-doc-refs", O(Ids.docRefs)>>,
                <<"paths", O(Ids.paths)>> >>
             \o (IF c.pre > 0 THEN << <<"components", O(Ids.components)>> >> ELSE <<>>))
    [] i = Ids.docRefs -> Arr(<< O(Ids.docPurpose), O(Ids.docAuth) >>)
    [] i = Ids.docPurpose -> Rec(<< <<"id", S("purpose")>>, <<"name", S("Purpose")>>,
                                    <<"$ref", MarkdownRef("purpose")>> >>)
    [] i \in {Ids.docAuth, Ids.entryFile} ->
         Rec(<< <<"id", S("auth")>>, <<"name", S("Authentication")>>,
                <<"$ref", MarkdownRef("auth")>> >>)
    [] i = Ids.refA -> Rec(<< <<"$ref", P(componentPointer("RefB"))>> >>)
    [] i = Ids.refB -> Rec(<< <<"$ref", P(componentPointer("RefA"))>> >>)
    [] i = Ids.paths -> Rec(<< <<"p1", O(Ids.item1)>>, <<"p2", O(Ids.item2)>> >>)
    [] i = Ids.item1 -> Rec(<< <<"schema", O(SiteObject(c.s1))>>,
                               <<"example", O(Ids.mediaExample)>> >>)
    [] i = Ids.item2 -> Rec(<< <<"schema", O(SiteObject(c.s2))>> >>)
    [] i = Ids.components -> Rec(<< <<"schemas", O(Ids.schemas)>> >>)
    [] i = Ids.schemas -> Rec([k \in 1..c.pre |-> <<PreName(k), O(Ids.pre + k - 1)>>])
    [] i = Ids.pet -> Rec(<< <<"type", S("object")>>, <<"properties", O(Ids.petProps)>>,
                             <<"description", S("a pet")>> >>)
    [] i = Ids.petProps -> Rec(<< <<"id", O(Ids.id)>> >>)
    [] i = Ids.id -> Rec(<< <<"type", S("string")>> >>)
    [] i = Ids.petb -> Rec(<< <<"type", S("object")>>, <<"required", O(Ids.petbRequired)>> >>)
    [] i = Ids.petbRequired -> Arr(<< S("id") >>)
    [] i \in {Ids.ua, Ids.ub} -> Rec(<< <<"type", S("object")>>, <<"format", S("user")>> >>)
    [] i = Ids.eb -> Rec(<< <<"type", S("object")>>, <<"discriminator", O(Ids.ebDiscriminator)>> >>)
    [] i = Ids.ebDiscriminator -> Rec(<< <<"propertyName", S("kind")>>,
                                         <<"mapping", O(Ids.ebMapping)>> >>)
    [] i = Ids.ebMapping -> Rec(<< <<"card", RelativeRef(ChainBase(1))>>,
                                   <<"id", RelativeRef("Id")>>,
                                   <<"gone", RelativeRef("Gone")>>,
                                   <<"pet", RelativeRef("Pet")>>,
                                   <<"xpet", F(FileRef("", FALSE, <<"x">>, "Pet", "yaml", FALSE))>> >>)
    [] i \in {Ids.note, Ids.noteFile} -> Rec(<< <<"title", S("note")>>,
                                                <<"description", S("a note")>> >>)
    [] i = Ids.petclone -> Rec(<< <<"type", S("object")>>, <<"properties", O(Ids.petcloneProps)>>,
                                  <<"summary", S("pet summary")>>,
                                  <<"description", S("cloned")>> >>)
    [] i = Ids.petcloneProps -> Rec(<< <<"id", O(Ids.petcloneId)>> >>)
    [] i = Ids.petcloneId -> Rec(<< <<"type", S("string")>> >>)
    [] i = Ids.uclone -> Rec(<< <<"type", S("object")>>, <<"format", S("user")>>,
                                <<"summary", S("a user")>> >>)
    [] i = Ids.plain -> Rec(<< <<"type", S("integer")>>, <<"description", S("plain")>> >>)
    [] i = Ids.ref1 -> Rec(<< <<"$ref", P(<<"paths", "p1", "schema">>)>>,
                              <<"description", S("via ref")>> >>)
    [] i = Ids.dangling -> Rec(<< <<"$ref", P(<<"paths", "zz", "schema">>)>> >>)
    [] i = Ids.withex -> Rec(<< <<"type", S("object")>>, <<"example", O(Ids.withexExample)>> >>)
    [] i \in {Ids.withexExample, Ids.mediaExample} -> Rec(<< <<"type", S("string")>> >>)
    [] i = Ids.pre /\ c.nested -> Rec(<< <<"type", S("object")>>,
                                         <<"properties", O(Ids.holderProps)>> >>)
    [] i = Ids.holderProps -> Rec(<< <<"id", O(Ids.id)>> >>)
    [] OTHER -> Rec(<< <<"type", S("boolean")>> >>)

\* The parsed content of N<i>.yaml: five objects from ChainRoot(i) on.
ChainNode(c, i, k) ==
  CASE k = 0 -> Rec(<< <<"type", S("object")>>, <<"properties", O(ChainRoot(i) + 1)>> >>
                    \o (IF c.chainMap THEN << <<"discriminator", O(ChainRoot(i) + 3)>> >>
                        ELSE <<>>))
    [] k = 1 -> Rec(<< <<"next", O(ChainRoot(i) + 2)>> >>)
    [] k = 2 -> Rec(<< <<"$ref", DotRelativeRef(ChainBase(i + 1))>> >>)
    [] k = 3 -> Rec(<< <<"mapping", O(ChainRoot(i) + 4)>> >>)
    [] OTHER -> Rec(<< <<"id", RelativeRef("Id")>> >>)

InitHeap(c) ==
  [i \in (Ids.root..Ids.docAuth) \cup (Ids.pet..(Ids.pre + c.pre - 1)) \cup {Ids.holderProps}
         \cup {ChainRoot(j) + k : j \in 1..c.chain, k \in 0..4} |->
     IF i >= Ids.chain THEN ChainNode(c, (i - Ids.chain) \div 5 + 1, (i - Ids.chain) % 5)
     ELSE LibraryNode(c, i)]

LoadedAll == << RootPath, PetPath, IdPath, PetBPath, UserAPath, UserBPath, EventBasePath, NotePath >>
LoadedReversed ==
  << RootPath, NotePath, EventBasePath, UserBPath, UserAPath, PetBPath, IdPath, PetPath >>
LoadedOneOfEach == << RootPath, PetPath, IdPath, UserAPath, EventBasePath, NotePath >>

\* parser.$refs.get(path)
LoadedValue ==
  [p \in {LoadedAll[i] : i \in DOMAIN LoadedAll} \cup {Path(SpecDir, b, "yaml") : b \in {"Entry", "RefA", "RefB"}} |->
     CASE p = PetPath -> O(Ids.pet)
       [] p = IdPath -> O(Ids.id)
       [] p = PetBPath -> O(Ids.petb)
       [] p = UserAPath -> O(Ids.ua)
       [] p = UserBPath -> O(Ids.ub)
       [] p = EventBasePath -> O(Ids.eb)
       [] p = NotePath -> O(Ids.note)
       [] p.b = "Entry" -> O(Ids.entryFile)
       [] p.b = "RefA" -> O(Ids.refA)
       [] p.b = "RefB" -> O(Ids.refB)
       [] OTHER -> O(Ids.root)]

InitRefs(c) ==
  [has |-> c.hasRefs,
   paths |-> CASE c.loaded = "all" -> LoadedAll
               [] c.loaded = "rev" -> LoadedReversed
               [] c.loaded = "one" -> LoadedOneOfEach
               [] c.loaded = "docs" ->
                    << RootPath, PetPath, IdPath, Path(SpecDir, "Entry", "yaml") >>
               [] c.loaded = "cycle" ->
                    << RootPath, Path(SpecDir, "RefA", "yaml"), Path(SpecDir, "RefB", "yaml") >>
               [] OTHER -> <<>>,
   get |-> LoadedValue]

InitFs(c) ==
  [p \in {ChainPath(j) : j \in 1..c.chain} \cup {NotePath} |->
     IF p = NotePath THEN [kind |-> "schema", id |-> Ids.noteFile]
     ELSE [kind |-> "schema", id |-> ChainRoot(CHOOSE j \in 1..c.chain : ChainPath(j) = p)]]

NoRegistry == [schemaNames |-> {}, schemaPointersByValue |-> EmptyMap, componentSchemas |-> 0]
EmptyLog ==
  [regs |-> <<>>, repl |-> <<>>, calls |-> <<>>, loads |-> <<>>, mapped |-> <<>>, kept |-> <<>>,
   trail |-> <<>>, steps |-> <<>>, exhausted |-> FALSE]

Init ==
  \E c \in Configs :
    /\ heap = InitHeap(c)
    /\ nextId = FirstFreeId
    /\ root = Ids.root
    /\ refs = InitRefs(c)
    /\ fs = InitFs(c)
    /\ registry = NoRegistry
    /\ resolver = createExternalSchemaNameResolver
    /\ pc = "start"
    /\ round = 0
    /\ run = 1
    /\ input = heap
    /\ firstOut = {}
    /\ log = EmptyLog
    /\ flights = <<>>
    /\ returned = <<>>

---------------------------------------------------------------------------
(* hoistBundledSchemas, one action per step of the driver *)

\* isOpenAPI (assertions.ts): a record whose `openapi` is a string starting with "3."
isOpenAPI(h, v) ==
  isRecord(h, v) /\ GetKey(h[v[2]], "openapi") \in {S("3.0.3"), S("3.1.0")}

\* A faulty variant of shouldProcess that does not look at parser.$refs.
shouldProcessWithoutRefs(h, rootId, r) == isOpenAPI(h, O(rootId))

\* Step 0: !(!isOpenAPI(parser.schema) || !parser.$refs)
shouldProcess(h, rootId, r) == isOpenAPI(h, O(rootId)) /\ r.has

\* The working state of a pass, from the variables
Cur ==
  [heap |-> heap, nextId |-> nextId, root |-> root, fs |-> fs, reg |-> registry,
   res |-> resolver, log |-> log, ret |-> Undef, acc |-> {}, changed |-> FALSE,
   index |-> EmptyMap, externalSchemas |-> EmptyMap]

\* The working state at the start of a pass; log.steps records the pass.
Begin(pass) == [Cur EXCEPT !.log.steps = Append(@, pass)]

Commit(st) ==
  /\ heap' = st.heap
  /\ nextId' = st.nextId
  /\ registry' = st.reg
  /\ resolver' = st.res
  /\ log' = st.log

\* Step 2a: resolvedPaths.filter(path => path !== rootPath).forEach(...)
RECURSIVE preRegister(_, _, _, _)
preRegister(st, paths, i, rootPath) ==
  IF i > Len(paths) THEN st
  ELSE LET path == paths[i]
           value == refs.get[path]
       IN IF path = rootPath \/ ~isRecord(st.heap, value)
            THEN preRegister(st, paths, i + 1, rootPath)
            ELSE LET sourceName == createSchemaNameFromSourcePath(path)
                     st1 == [st EXCEPT !.externalSchemas = MapPut(@, value[2], path)]
                     st2 == addExternalNameCandidate(st1, value[2], sourceName)
                     st3 == registerExternalSourcePath(st2, path, value[2])
                 IN preRegister(st3, paths, i + 1, rootPath)

\* Step 2b: collectSchemaTargets(...).forEach(({ sourcePath, value }) => ...)
RECURSIVE hoistTargets(_, _, _)
hoistTargets(st, targets, i) ==
  IF i > Len(targets) THEN st
  ELSE LET sourcePath == targets[i].sourcePath
           st1 == registerSchemaInComponents(st, targets[i].value,
                                             createSchemaNameFromSourcePath(sourcePath))
           componentName == componentNameOf(st1.ret)
       IN hoistTargets([st1 EXCEPT
                          !.res.componentNameBySourcePath = MapPut(@, sourcePath, componentName),
                          !.res.sourcePathByComponentName = OrderedPut(@, componentName, sourcePath)],
                       targets, i + 1)

\* Step 0, preconditions not met: return
NoOp ==
  /\ pc = "start"
  /\ ~shouldProcess(heap, root, refs)
  /\ pc' = "done"
  /\ UNCHANGED <<returned, heap, nextId, root, refs, fs, registry, resolver, round, run, input, firstOut, log,
                 flights>>

\* Step 1: createSchemaRegistry, createExternalSchemaNameResolver
CreateWorkingState ==
  /\ pc = "start"
  /\ shouldProcess(heap, root, refs)
  /\ Commit([createSchemaRegistry(Cur) EXCEPT !.res = createExternalSchemaNameResolver])
  /\ pc' = "hoist"
  /\ UNCHANGED <<returned, flights, root, refs, fs, round, run, input, firstOut>>

\* Step 2: pre-registration of the loaded files and hoisting of the used ones
PreRegisterAndHoist ==
  /\ pc = "hoist"
  /\ LET paths == refs.paths
     IN IF paths = <<>> THEN Commit(Begin("hoist"))
        ELSE LET st1 == preRegister(Begin("hoist"), paths, 1, paths[1])
                 targets == collectSchemaTargets(st1, st1.externalSchemas)
             IN Commit(hoistTargets(st1, targets, 1))
  /\ pc' = "local"
  /\ UNCHANGED <<returned, flights, root, refs, fs, round, run, input, firstOut>>

\* Step 3
RewriteLocalRefs ==
  /\ pc = "local"
  /\ Commit(rewriteLocalSchemaRefsToComponents(Begin("local")))
  /\ pc' = "inline"
  /\ UNCHANGED <<returned, flights, root, refs, fs, round, run, input, firstOut>>

\* Step 4.  A loop that is still changing the document after MaxIterations
\* iterations is taken not to return: the run stays in step 4.
RewriteInlineExternal ==
  /\ pc = "inline"
  /\ LET leave(st) == Commit(st) /\ pc' = IF st.log.exhausted THEN "diverged" ELSE "mappings"
     IN leave(rewriteInlineExternalLoop(Begin("inline"), MaxIterations))
  /\ round' = 0
  /\ UNCHANGED <<returned, flights, root, refs, fs, run, input, firstOut>>

\* Step 5, first half of an iteration of for (let i = 0; i < 2; i += 1)
RewriteDiscriminatorMappings ==
  /\ pc = "mappings"
  /\ Commit(rewriteDiscriminatorLoop(Begin("mappings"), MaxIterations))
  /\ pc' = "templates"
  /\ UNCHANGED <<returned, flights, root, refs, fs, round, run, input, firstOut>>

\* A faulty variant of RewriteFromSourceTemplates that leaves the loop of step 5
\* after its first iteration.
RewriteFromSourceTemplatesOnce ==
  /\ pc = "templates"
  /\ Commit(rewriteSchemaRefsFromSourceTemplates(Begin("templates")))
  /\ round' = round + 1
  /\ pc' = "dedupe"
  /\ UNCHANGED <<returned, flights, root, refs, fs, run, input, firstOut>>

\* Step 5, second half of an iteration
RewriteFromSourceTemplates ==
  /\ pc = "templates"
  /\ Commit(rewriteSchemaRefsFromSourceTemplates(Begin("templates")))
  /\ round' = round + 1
  /\ pc' = IF round + 1 < Rounds THEN "mappings" ELSE "dedupe"
  /\ UNCHANGED <<returned, flights, root, refs, fs, run, input, firstOut>>

\* Step 6
FinalDedupe ==
  /\ pc = "dedupe"
  /\ Commit(replaceHoistedObjectsWithRefs(Begin("dedupe")))
  /\ pc' = "done"
  /\ UNCHANGED <<returned, flights, root, refs, fs, round, run, input, firstOut>>

\* The caller runs hoistBundledSchemas again on the same parser.
RunAgain ==
  /\ pc = "done"
  /\ run = 1
  /\ run' = 2
  /\ pc' = "start"
  /\ round' = 0
  /\ input' = heap
  /\ firstOut' = DeepValue(heap, O(root), {}, <<>>)
  /\ registry' = NoRegistry
  /\ resolver' = createExternalSchemaNameResolver
  /\ log' = EmptyLog
  /\ UNCHANGED <<returned, heap, nextId, root, refs, fs, flights>>

Next ==
  \/ NoOp
  \/ CreateWorkingState
  \/ PreRegisterAndHoist
  \/ RewriteLocalRefs
  \/ RewriteInlineExternal
  \/ RewriteDiscriminatorMappings
  \/ RewriteFromSourceTemplates
  \/ FinalDedupe
  \/ RunAgain

Spec == Init /\ [][Next]_vars

---------------------------------------------------------------------------
(* The loader under concurrent callers.  ensureExternalSchemaForSourcePath is *)
(* an exported async function: a caller that does not await it before the    *)
(* next call, or two callers that share a resolver, have several calls in     *)
(* progress, each suspended at its await of parse.  A call runs without       *)
(* interruption up to that await and again from the settling of parse to its  *)
(* return.                                                                    *)

MaxCalls == 4      \* calls made to the loader

\* The source paths asked for: a schema file, a file that is no schema, a
\* file that cannot be parsed.
LoaderPaths == {ChainPath(1), NotePath, Path(SpecDir, "Gone", "yaml")}

InFlight(sourcePath) ==
  \E i \in DOMAIN flights : flights[i].path = sourcePath /\ flights[i].state = "parsing"

LoaderInit ==
  \E c \in Configs :
    /\ c.chain = 1 /\ c.ver = "3.0.3"
    /\ heap = InitHeap(c)
    /\ nextId = FirstFreeId
    /\ root = Ids.root
    /\ refs = InitRefs(c)
    /\ fs = InitFs(c)
    /\ registry = NoRegistry
    /\ resolver = createExternalSchemaNameResolver
    /\ pc = "loader"
    /\ round = 0
    /\ run = 1
    /\ input = heap
    /\ firstOut = {}
    /\ log = EmptyLog
    /\ flights = <<>>
    /\ returned = <<>>

\* A caller calls ensureExternalSchemaForSourcePath(sourcePath, resolver): the
\* call returns at once from the cache or the guard, or adds the path to
\* loadingSourcePaths and awaits the parse.
CallLoader ==
  /\ pc = "loader"
  /\ Len(flights) < MaxCalls
  /\ \E sourcePath \in LoaderPaths :
       LET flight(state, st) ==
             /\ Commit(st)
             /\ flights' = Append(flights, [path |-> sourcePath, state |-> state,
                                            during |-> InFlight(sourcePath),
                                            parsed |-> state = "parsing", ret |-> st.ret])
       IN IF loadEntry(resolver, sourcePath) = "parse"
            THEN flight("parsing", startParse(Cur, sourcePath))
            ELSE flight("returned", ensureExternalSchemaForSourcePath(Cur, sourcePath))
  /\ UNCHANGED <<returned, root, refs, fs, pc, round, run, input, firstOut>>

\* The parse of a call in flight settles and the call runs to its return.
SettleLoad ==
  /\ pc = "loader"
  /\ \E i \in DOMAIN flights :
       /\ flights[i].state = "parsing"
       /\ LET return(st) ==
                /\ Commit(st)
                /\ flights' = [flights EXCEPT ![i].state = "returned", ![i].ret = st.ret]
          IN return(settleParse(Cur, flights[i].path, ParseResult(Cur, flights[i].path)))
  /\ UNCHANGED <<returned, root, refs, fs, pc, round, run, input, firstOut>>

LoaderNext ==
  \/ CallLoader
  \/ SettleLoad

LoaderSpec == LoaderInit /\ [][LoaderNext]_vars

---------------------------------------------------------------------------
(* The helpers called directly, as the unit tests call them: the fingerprint   *)
(* of two objects, a walk of an object graph, and the final dedupe of a        *)
(* document right after createSchemaRegistry.  The objects are a fixed library *)
(* of small graphs: two documents with components, shared objects, arrays and  *)
(* an identity cycle, and a menu of schemas to fingerprint.                    *)

HelperIds ==
  [doc |-> 1, docProps |-> 2, user |-> 3, userExamples |-> 4, userEx0 |-> 5, examples |-> 6,
   ex0 |-> 7, ex0Items |-> 8, info |-> 9, shared |-> 10, components |-> 11, schemas |-> 12,
   holder |-> 13, holderProps |-> 14, list |-> 15, loop |-> 16, loopProps |-> 17,
   first |-> 18, firstProps |-> 19, str |-> 20, num |-> 21, second |-> 22, secondProps |-> 23,
   nestedA |-> 24, nestedAProps |-> 25, childA |-> 26, nestedB |-> 27, nestedBProps |-> 28,
   childB |-> 29, bare |-> 30, titled |-> 31, empty |-> 32, enumAB |-> 33, arrAB |-> 34,
   enumBA |-> 35, arrBA |-> 36, enumRec |-> 37, recAB |-> 38, holdsRec |-> 39,
   holdsArr |-> 40, emptyArr |-> 41, cyc |-> 42, marker |-> 43, cycA |-> 44, cycB |-> 45,
   docstring |-> 46, templated |-> 47, tComponents |-> 48, tSchemas |-> 49, bundled |-> 50,
   bProps |-> 51, bEvent |-> 52, bExtra |-> 53, bList |-> 54, bGone |-> 55, bShort |-> 56,
   source |-> 57, sProps |-> 58, sRef |-> 59, sList |-> 60, sGone |-> 61, sLong |-> 62,
   card |-> 63]

HelperNode(i) ==
  LET I == HelperIds
  IN CASE i = I.doc -> Rec(<< <<"openapi", S("3.0.3")>>, <<"properties", O(I.docProps)>>,
                              <<"examples", O(I.examples)>>, <<"info", O(I.info)>>,
                              <<"components", O(I.components)>> >>)
       [] i = I.docProps -> Rec(<< <<"user", O(I.user)>>, <<"id", O(I.shared)>>,
                                   <<"list", O(I.list)>> >>)
       [] i = I.user -> Rec(<< <<"type", S("object")>>, <<"examples", O(I.userExamples)>> >>)
       [] i = I.userExamples -> Arr(<< O(I.userEx0) >>)
       [] i = I.userEx0 -> Rec(<< <<"foo", S("bar")>> >>)
       [] i = I.examples -> Arr(<< O(I.ex0), O(I.shared) >>)
       [] i = I.ex0 -> Rec(<< <<"foo", S("bar")>>, <<"items", O(I.ex0Items)>> >>)
       [] i = I.ex0Items -> Rec(<< <<"type", S("string")>> >>)
       [] i = I.info -> Rec(<< <<"contact", O(I.shared)>> >>)
       [] i = I.shared -> Rec(<< <<"type", S("string")>> >>)
       [] i = I.components -> Rec(<< <<"schemas", O(I.schemas)>> >>)
       [] i = I.schemas -> Rec(<< <<"Id", O(I.shared)>>, <<"Holder", O(I.holder)>> >>)
       [] i = I.holder -> Rec(<< <<"type", S("object")>>, <<"properties", O(I.holderProps)>> >>)
       [] i = I.holderProps -> Rec(<< <<"id", O(I.shared)>>, <<"self", O(I.holder)>> >>)
       [] i = I.list -> Arr(<< O(I.shared), O(I.ex0Items) >>)
       \* root.properties.self = root
       [] i = I.loop -> Rec(<< <<"openapi", S("3.0.3")>>, <<"properties", O(I.loopProps)>>,
                               <<"components", O(I.components)>> >>)
       [] i = I.loopProps -> Rec(<< <<"self", O(I.loop)>>, <<"id", O(I.shared)>> >>)
       \* the two schemas that differ in key order and root docstrings
       [] i = I.first -> Rec(<< <<"type", S("object")>>, <<"summary", S("A")>>,
                                <<"description", S("one")>>,
                                <<"properties", O(I.firstProps)>> >>)
       [] i = I.firstProps -> Rec(<< <<"b", O(I.str)>>, <<"a", O(I.num)>> >>)
       [] i = I.str -> Rec(<< <<"type", S("string")>> >>)
       [] i = I.num -> Rec(<< <<"type", S("number")>> >>)
       [] i = I.second -> Rec(<< <<"description", S("two")>>, <<"summary", S("B")>>,
                                 <<"properties", O(I.secondProps)>>,
                                 <<"type", S("object")>> >>)
       [] i = I.secondProps -> Rec(<< <<"a", O(I.num)>>, <<"b", O(I.str)>> >>)
       \* the two schemas that differ in a nested summary
       [] i = I.nestedA -> Rec(<< <<"type", S("object")>>, <<"properties", O(I.nestedAProps)>> >>)
       [] i = I.nestedAProps -> Rec(<< <<"child", O(I.childA)>> >>)
       [] i = I.childA -> Rec(<< <<"type", S("string")>>, <<"summary", S("A")>> >>)
       [] i = I.nestedB -> Rec(<< <<"type", S("object")>>, <<"properties", O(I.nestedBProps)>> >>)
       [] i = I.nestedBProps -> Rec(<< <<"child", O(I.childB)>> >>)
       [] i = I.childB -> Rec(<< <<"type", S("string")>>, <<"summary", S("B")>> >>)
       [] i = I.bare -> Rec(<< <<"type", S("string")>> >>)
       [] i = I.titled -> Rec(<< <<"summary", S("A")>>, <<"type", S("string")>> >>)
       [] i = I.empty -> Rec(<<>>)
       [] i = I.docstring -> Rec(<< <<"description", S("one")>> >>)
       [] i = I.enumAB -> Rec(<< <<"enum", O(I.arrAB)>> >>)
       [] i = I.arrAB -> Arr(<< S("a"), S("b") >>)
       [] i = I.enumBA -> Rec(<< <<"enum", O(I.arrBA)>> >>)
       [] i = I.arrBA -> Arr(<< S("b"), S("a") >>)
       [] i = I.enumRec -> Rec(<< <<"enum", O(I.recAB)>> >>)
       [] i = I.recAB -> Rec(<< <<"0", S("a")>>, <<"1", S("b")>> >>)
       [] i = I.holdsRec -> Rec(<< <<"x", O(I.empty)>> >>)
       [] i = I.holdsArr -> Rec(<< <<"x", O(I.emptyArr)>> >>)
       [] i = I.emptyArr -> Arr(<<>>)
       \* identity cycles, and the string a cycle is written as
       [] i = I.cyc -> Rec(<< <<"x", O(I.cyc)>> >>)
       [] i = I.marker -> Rec(<< <<"x", S("[Circular]")>> >>)
       [] i = I.cycA -> Rec(<< <<"x", O(I.cycB)>> >>)
       [] i = I.cycB -> Rec(<< <<"x", O(I.cycA)>> >>)
       \* a document whose component EventBase is the bundled form of a source
       \* file that differs from it in keys, shapes and array lengths
       [] i = I.templated -> Rec(<< <<"openapi", S("3.0.3")>>,
                                    <<"components", O(I.tComponents)>> >>)
       [] i = I.tComponents -> Rec(<< <<"schemas", O(I.tSchemas)>> >>)
       [] i = I.tSchemas -> Rec(<< <<"EventBase", O(I.bundled)>> >>)
       [] i = I.bundled -> Rec(<< <<"properties", O(I.bProps)>>, <<"oneOf", O(I.bList)>>,
                                  <<"anyOf", O(I.bShort)>> >>)
       [] i = I.bProps -> Rec(<< <<"event", O(I.bEvent)>>, <<"extra", O(I.bExtra)>>,
                                 <<"shape", S("text")>>, <<"gone", O(I.bGone)>> >>)
       [] i = I.bEvent -> Rec(<< <<"type", S("object")>>,
                                 <<"summary", S("from bundled output")>> >>)
       [] i = I.bExtra -> Rec(<< <<"type", S("string")>> >>)
       [] i = I.bList -> Arr(<< O(I.bEvent), O(I.bExtra), O(I.bGone) >>)
       [] i = I.bGone -> Rec(<< <<"type", S("number")>> >>)
       [] i = I.bShort -> Arr(<< O(I.bExtra) >>)
       [] i = I.source -> Rec(<< <<"properties", O(I.sProps)>>, <<"oneOf", O(I.sList)>>,
                                 <<"anyOf", O(I.sLong)>>, <<"allOf", O(I.sList)>> >>)
       [] i = I.sProps -> Rec(<< <<"event", O(I.sRef)>>, <<"missing", O(I.sRef)>>,
                                 <<"shape", O(I.sRef)>>, <<"gone", O(I.sGone)>> >>)
       [] i = I.sRef -> Rec(<< <<"$ref", DotRelativeRef("Id")>> >>)
       [] i = I.sList -> Arr(<< O(I.sRef) >>)
       [] i = I.sGone -> Rec(<< <<"$ref", RelativeRef("Gone")>> >>)
       [] i = I.sLong -> Arr(<< O(I.sGone), O(I.sRef) >>)
       [] OTHER -> Rec(<< <<"type", S("object")>> >>)

HelperHeap == [i \in 1..HelperIds.card |-> HelperNode(i)]

\* The documents handed to replaceHoistedObjectsWithRefs and to
\* rewriteSchemaRefsFromSourceTemplates
HelperDocuments == {HelperIds.doc, HelperIds.loop, HelperIds.templated}

\* The schemas handed to createSchemaFingerprint
FingerprintMenu ==
  {HelperIds.first, HelperIds.second, HelperIds.nestedA, HelperIds.nestedB, HelperIds.bare,
   HelperIds.titled, HelperIds.str, HelperIds.empty, HelperIds.docstring, HelperIds.enumAB,
   HelperIds.enumBA, HelperIds.enumRec, HelperIds.holdsRec, HelperIds.holdsArr,
   HelperIds.cyc, HelperIds.marker, HelperIds.cycA, HelperIds.cycB}

HelperInit ==
  /\ heap = HelperHeap
  /\ nextId = HelperIds.card + 1
  /\ root \in HelperDocuments
  /\ refs = [has |-> FALSE, paths |-> <<>>, get |-> LoadedValue]
  /\ fs = EmptyMap
  /\ registry = NoRegistry
  /\ resolver = createExternalSchemaNameResolver
  /\ pc = "helper"
  /\ round = 0
  /\ run = 1
  /\ input = heap
  /\ firstOut = {}
  /\ log = EmptyLog
  /\ flights = <<>>
  /\ returned = <<>>

\* createSchemaFingerprint(first), createSchemaFingerprint(second)
Fingerprint ==
  /\ pc = "helper"
  /\ \E first, second \in FingerprintMenu :
       returned' = [call |-> "fingerprint", first |-> first, second |-> second,
                  fingerprints |-> << createSchemaFingerprint(heap, first),
                                      createSchemaFingerprint(heap, second) >>]
  /\ UNCHANGED <<heap, nextId, root, refs, fs, registry, resolver, pc, round, run, input,
                 firstOut, log, flights>>

\* walk(value, false, '#', new WeakSet(), visitor) with a visitor that records
\* its arguments
WalkGraph ==
  /\ pc = "helper"
  /\ \E value \in DOMAIN heap :
       returned' = [call |-> "walk", value |-> value, visited |-> Visits(heap, value)]
  /\ UNCHANGED <<heap, nextId, root, refs, fs, registry, resolver, pc, round, run, input,
                 firstOut, log, flights>>

\* const registry = createSchemaRegistry(root); replaceHoistedObjectsWithRefs(root, registry)
DedupeDocument ==
  /\ pc = "helper"
  /\ Commit(replaceHoistedObjectsWithRefs(createSchemaRegistry(Cur)))
  /\ pc' = "deduped"
  /\ returned' = [call |-> "dedupe"]
  /\ UNCHANGED <<root, refs, fs, round, run, input, firstOut, flights>>

\* The resolver the test sets up by hand: the component's source file with its
\* parsed content, and the loaded schema of the file the source refers to.
prepareTemplates(st) ==
  LET child(st1) == registerExternalSourcePath(st1, IdPath, HelperIds.card)
      candidate(st1) == child(addExternalNameCandidate(st1, HelperIds.card, "Id"))
  IN candidate([st EXCEPT
                  !.res.sourcePathByComponentName = OrderedPut(@, "EventBase", EventBasePath),
                  !.res.schemaBySourcePath = MapPut(@, EventBasePath, HelperIds.source)])

\* await rewriteSchemaRefsFromSourceTemplates(root, registry, resolver)
RewriteTemplates ==
  /\ pc = "helper"
  /\ Commit(rewriteSchemaRefsFromSourceTemplates(prepareTemplates(createSchemaRegistry(Cur))))
  /\ pc' = "templated"
  /\ returned' = [call |-> "templates"]
  /\ UNCHANGED <<root, refs, fs, round, run, input, firstOut, flights>>

HelperNext ==
  \/ Fingerprint
  \/ WalkGraph
  \/ DedupeDocument
  \/ RewriteTemplates

HelperSpec == HelperInit /\ [][HelperNext]_vars

---------------------------------------------------------------------------
(* Properties *)

\* The run in progress passed step 0.
Processed == isOpenAPI(input, O(root)) /\ refs.has
Finished == pc = "done" /\ Processed
Document == DeepValue(heap, O(root), {}, <<>>)

\* The records at schema-context locations of the document that carry a string $ref
SchemaRefs(h) ==
  {v \in Visits(h, root) : v.ctx /\ ~h[v.id].arr /\ IsString(GetKey(h[v.id], "$ref"))}

\* ref.startsWith('#/paths/')
IsDeepPathRef(ref) == ref[1] = "p" /\ Len(ref[2]) >= 2 /\ ref[2][1] = "paths"

ResolvesToRecord(h, ref) == isRecord(h, resolveLocalPointer(h, root, ref[2]))

\* The file at sourcePath can be loaded as a schema.
Loadable(sourcePath) ==
  /\ MapHas(fs, sourcePath)
  /\ fs[sourcePath].kind = "schema"
  /\ ~heap[fs[sourcePath].id].arr
  /\ isLikelySchemaObject(heap, fs[sourcePath].id)

\* C1: when the document is not OpenAPI 3.x or parser.$refs is absent, the run
\* leaves every object as it was and creates no components.
C1_NoOpLeavesDocument ==
  (~isOpenAPI(input, O(root)) \/ ~refs.has)
    => /\ heap = input
       /\ registry = NoRegistry
       /\ HasKey(heap[root], "components") = HasKey(input[root], "components")

C1_Witness ==
  /\ pc = "done"
  /\ isOpenAPI(input, O(root))
  /\ ~refs.has
  /\ ~HasKey(heap[root], "components")

\* C2 as stated: after a run that passed step 0, no record at a schema-context
\* location has a $ref starting with #/paths/, whatever the ref resolves to.
C2_NoDeepPathRef ==
  Finished => \A v \in SchemaRefs(heap) : ~IsDeepPathRef(GetKey(heap[v.id], "$ref"))

\* C2 amended: after a run that passed step 0, a $ref starting with #/paths/
\* remains at a schema-context location only if it did not resolve to a record
\* of the document the run was given.
C2_DeepPathRefOnlyIfUnresolved ==
  Finished => \A v \in SchemaRefs(heap) :
                IsDeepPathRef(GetKey(heap[v.id], "$ref"))
                  => ~ResolvesToRecord(input, GetKey(heap[v.id], "$ref"))

C2_Witness ==
  /\ Finished
  /\ \E v \in SchemaRefs(heap) :
       /\ v.id \in DOMAIN input
       /\ IsDeepPathRef(GetKey(input[v.id], "$ref"))
       /\ ResolvesToRecord(input, GetKey(input[v.id], "$ref"))
       /\ isComponentSchemaRootPointer(GetKey(heap[v.id], "$ref")[2])

\* C3 as stated, its last part: after a run that passed step 0, no record at a
\* schema-context location has a $ref to an external file that can be loaded.
C3_NoLoadableFileRef ==
  Finished => \A v \in SchemaRefs(heap) :
                LET ref == GetKey(heap[v.id], "$ref")
                IN ~(looksLikeExternalFileReference(ref) /\ Loadable(resolveFrom(RootPath, ref[2])))

\* C4 as stated: after the run, the value under every example / examples key of
\* an object of the document is the value it had before the run.
C4_ExamplesUntouched ==
  pc = "done" =>
    \A v \in Visits(input, root) : \A k \in {"example", "examples"} :
      HasKey(input[v.id], k)
        => DeepValue(heap, GetKey(heap[v.id], k), {}, <<>>)
             = DeepValue(input, GetKey(input[v.id], k), {}, <<>>)

KeepsDocstrings(e) ==
  /\ IsString(e.oldSummary) => e.newSummary = e.oldSummary
  /\ IsString(e.oldDescription) => e.newDescription = e.oldDescription

SchemaMappings(h) ==
  {Prop(h, GetKey(h[v.id], "discriminator"), "mapping")[2] :
     v \in {w \in Visits(h, root) :
              /\ w.ctx /\ ~h[w.id].arr
              /\ isRecord(h, GetKey(h[w.id], "discriminator"))
              /\ isRecord(h, Prop(h, GetKey(h[w.id], "discriminator"), "mapping"))}}

\* The mapping value names a file that matches a known source path and loads.
MatchesKnownSourcePath(mappingValue) ==
  /\ looksLikeExternalFileReference(mappingValue)
  /\ LET matched == resolveMatchingSourcePath(mappingValue[2], lowerBaseName(mappingValue[2]),
                                              resolver)
     IN matched # NoPath /\ MapHas(resolver.schemaBySourcePath, matched)

\* C6 as stated: after a run that passed step 0, every string value of a
\* discriminator mapping in schema context points to an existing component or
\* is an external string that does not match a known, loadable source path.
C6_MappingsResolved ==
  Finished =>
    \A m \in SchemaMappings(heap) : \A i \in DOMAIN heap[m].e :
      LET mappingValue == heap[m].e[i][2]
      IN IsString(mappingValue) =>
           \/ /\ mappingValue[1] = "p"
              /\ isComponentSchemaRootPointer(mappingValue[2])
              /\ HasKey(heap[registry.componentSchemas], mappingValue[2][3])
           \/ /\ mappingValue[1] # "p"
              /\ ~MatchesKnownSourcePath(mappingValue)

Ambiguous(e) == e.pass = "inline" /\ ~e.identity /\ Cardinality(e.names) >= 2

\* C7 as stated: the inline-external pass never replaces a record that is not a
\* candidate by identity and whose fingerprint has two or more candidate names.
C7_AmbiguousNeverReplaced ==
  \A i \in DOMAIN log.repl : ~Ambiguous(log.repl[i])

\* C7 amended: the inline-external pass replaces such a record only through
\* the index of hoisted components, when exactly one component whose name is a
\* candidate name has the record's fingerprint, and then by a ref to that
\* component; the resolver's candidates are not used.
C7_AmbiguousOnlyByComponent ==
  \A i \in DOMAIN log.repl :
    Ambiguous(log.repl[i])
      => /\ log.repl[i].via = "component"
         /\ log.repl[i].newRef[2][3] \in log.repl[i].names

C7_Witness ==
  \E i \in DOMAIN log.repl : Ambiguous(log.repl[i]) /\ log.repl[i].via = "component"

\* <Name>, <Name>_2, <Name>_3, ...
NameCandidate(baseName, k) == IF k = 1 THEN baseName ELSE baseName \o "_" \o ToString(k)

\* The registrations that created a key, in order
Created == SelectSeq(log.regs, LAMBDA r : ~r.existed)

\* C8 as stated: of two distinct objects registered with the same preferred
\* name, the first is under <Name> and the second under <Name>_2.
C8_SecondGetsSuffix2 ==
  \A i, j \in DOMAIN Created :
    ( /\ i < j
      /\ Created[i].preferred = Created[j].preferred
      /\ Created[i].obj # Created[j].obj
      /\ \A k \in 1..(j - 1) : Created[k].preferred = Created[i].preferred => k = i )
    => /\ Created[i].name = NameCandidate(Created[i].preferred, 1)
       /\ Created[j].name = NameCandidate(Created[i].preferred, 2)

\* C8 amended: a newly registered object gets the first of <Name>, <Name>_2,
\* <Name>_3, ... that is not in use when it is registered.
C8_FirstFreeName ==
  \A i \in DOMAIN Created :
    LET r == Created[i]
    IN \E k \in 1..(Cardinality(r.namesBefore) + 1) :
         /\ r.name = NameCandidate(r.preferred, k)
         /\ r.name \notin r.namesBefore
         /\ \A m \in 1..(k - 1) : NameCandidate(r.preferred, m) \in r.namesBefore

C8_Witness ==
  \E i, j \in DOMAIN Created :
    /\ i < j
    /\ Created[i].preferred = Created[j].preferred
    /\ Created[i].obj # Created[j].obj
    /\ Created[i].name = NameCandidate(Created[i].preferred, 1)
    /\ Created[j].name = NameCandidate(Created[i].preferred, 2)

\* C9: every registration of an object returns the pointer of its first
\* registration, and no object is the value of two keys that registrations of
\* the run created.
C9_OneKeyPerObject ==
  /\ \A i, j \in DOMAIN log.regs :
       log.regs[i].obj = log.regs[j].obj
         => /\ log.regs[i].name = log.regs[j].name
            /\ (i < j => log.regs[j].existed)
  /\ \A i, j \in DOMAIN Created :
       ( /\ i # j
         /\ GetKey(heap[registry.componentSchemas], Created[i].name)
              = GetKey(heap[registry.componentSchemas], Created[j].name) )
       => ~isObject(heap, GetKey(heap[registry.componentSchemas], Created[i].name))

C9_Witness ==
  \E i \in DOMAIN log.regs :
    /\ log.regs[i].existed
    /\ log.regs[i].preferred # log.regs[i].name

\* C10 as stated: a second run on the output of a first run, with the same
\* parser metadata, leaves the document structurally identical.
C10_Idempotent == (pc = "done" /\ run = 2) => Document = firstOut

DocRefs(h) == GetKey(h[root], "x-doc-refs")

\* C11: after a run that passed step 0 the top-level x-doc-refs array is the
\* array the run was given, with the entries it was given: the same objects,
\* equal in every key and value, their $ref to a markdown file included.
C11_DocRefsPreserved ==
  Finished =>
    /\ DocRefs(heap) = DocRefs(input)
    /\ DeepValue(heap, DocRefs(heap), {}, <<>>) = DeepValue(input, DocRefs(input), {}, <<>>)

\* A finished run that replaced the schema of p1 by a component ref and the
\* schema of p2, which was an entry object of x-doc-refs, by another one.
C11_Witness ==
  /\ Finished
  /\ isObject(heap, DocRefs(heap))
  /\ GetKey(input[Ids.item1], "schema") = O(Ids.pet)
  /\ GetKey(input[Ids.item2], "schema") = O(Ids.docAuth)
  /\ \A i \in {Ids.item1, Ids.item2} :
       /\ GetKey(heap[i], "schema") # GetKey(input[i], "schema")
       /\ isRecord(heap, GetKey(heap[i], "schema"))
       /\ GetKey(heap[GetKey(heap[i], "schema")[2]], "$ref")[1] = "p"
       /\ isComponentSchemaRootPointer(GetKey(heap[GetKey(heap[i], "schema")[2]], "$ref")[2])

\* The call of the loader made for log entry e (of log.mapped or log.kept)
\* met a failure of the parser.
ParseFailedFor(e) ==
  /\ Len(log.calls) > e.calls
  /\ log.calls[e.calls + 1].exit = "throw"

ParseFailed == \E i \in DOMAIN log.calls : log.calls[i].exit = "throw"

\* C12: a load whose parse fails returns undefined; the mapping value and the
\* template node it was made for keep their value; and the run is then at one
\* of the steps that follow or has returned: no step is cut short or repeated
\* without end because of the failure.
C12_ParseFailureRecovered ==
  /\ \A i \in DOMAIN log.calls : log.calls[i].exit = "throw" => log.calls[i].ret = Undef
  /\ \A i \in DOMAIN log.mapped :
       ParseFailedFor(log.mapped[i]) => log.mapped[i].after = log.mapped[i].before
  /\ \A i \in DOMAIN log.kept :
       ParseFailedFor(log.kept[i]) => log.kept[i].after = log.kept[i].before
  /\ ParseFailed => pc \in {"mappings", "templates", "dedupe", "done"} /\ ~log.exhausted

\* A finished run in which a parse failed for a mapping value and for a
\* template node.
C12_Witness ==
  /\ Finished
  /\ \E i \in DOMAIN log.mapped :
       /\ ParseFailedFor(log.mapped[i])
       /\ looksLikeExternalFileReference(log.mapped[i].after)
  /\ \E i \in DOMAIN log.kept :
       /\ ParseFailedFor(log.kept[i])
       /\ looksLikeExternalFileReference(log.kept[i].ref)

\* root.components.schemas in heap h
ComponentSchemasOf(h) == Prop(h, GetKey(h[root], "components"), "schemas")

\* C13: a run on an OpenAPI 3.x document whose parser metadata is present but
\* lists no loaded path leaves step 1 with components.schemas a record that
\* has exactly the entries the document came with (none if it came with no
\* components), and every later step keeps those entries in place.
C13_EmptyPathsInitialiseComponents ==
  (isOpenAPI(input, O(root)) /\ refs.has /\ refs.paths = <<>> /\ pc # "start") =>
    /\ isRecord(heap, ComponentSchemasOf(heap))
    /\ isRecord(input, ComponentSchemasOf(input)) =>
         /\ ComponentSchemasOf(heap) = ComponentSchemasOf(input)
         /\ \A k \in KeysOf(input[ComponentSchemasOf(input)[2]]) :
              GetKey(heap[ComponentSchemasOf(heap)[2]], k)
                = GetKey(input[ComponentSchemasOf(input)[2]], k)
    /\ pc = "hoist" =>
         KeysOf(heap[ComponentSchemasOf(heap)[2]])
           = IF isRecord(input, ComponentSchemasOf(input))
               THEN KeysOf(input[ComponentSchemasOf(input)[2]]) ELSE {}

\* Step 1 has just run on a 3.x document that came without components and
\* with an empty list of loaded paths: components.schemas is an empty record.
C13_Witness ==
  /\ pc = "hoist"
  /\ run = 1
  /\ refs.has /\ refs.paths = <<>>
  /\ GetKey(input[root], "components") = Undef
  /\ isRecord(heap, ComponentSchemasOf(heap))
  /\ heap[ComponentSchemasOf(heap)[2]].e = <<>>

\* C14 as stated: between any two steps of a run, and after the last one,
\* every object the registry has a pointer for is the value of
\* components.schemas under the name of that pointer.
C14_RegisteredObjectsInPlace ==
  (Processed /\ pc \notin {"start", "diverged"}) =>
    \A obj \in DOMAIN registry.schemaPointersByValue :
      GetKey(heap[registry.componentSchemas],
             componentNameOf(P(registry.schemaPointersByValue[obj]))) = O(obj)

\* C15 as stated: every object that was registered as a name candidate
\* resolves, by identity, to the name it was registered with and to itself,
\* whatever else was registered.
C15_ResolvesToItself ==
  \A o \in DOMAIN resolver.nameByValue :
    LET matched == resolveExternalSchemaCandidate(heap, resolver, o)
    IN /\ matched.ok
       /\ matched.name = resolver.nameByValue[o]
       /\ matched.schema = o

\* C16 as stated: the inline-external loop comes to a traversal that changes
\* nothing, so that step 4 is left for step 5; in particular no iteration
\* brings back the document and the component names an earlier one left.
C16_InlineFixpointExits ==
  /\ pc # "diverged"
  /\ \A i, j \in DOMAIN log.trail : i < j => log.trail[i] # log.trail[j]

\* The passes of steps 2 to 6 in the order of the code.
PassOrder ==
  << "hoist", "local", "inline", "mappings", "templates", "mappings", "templates", "dedupe" >>
PassesBegun ==
  LET IsPass(step) == step \in {PassOrder[i] : i \in DOMAIN PassOrder}
  IN SelectSeq(log.steps, IsPass)

\* C17: the passes begun so far are the first ones of the order hoist, local,
\* inline, (mappings, templates) twice, dedupe, each begun once the one before
\* it has returned; a finished run has begun them all and the dedupe sweep is
\* its last step.  Within an iteration of the discriminator loop every
\* schema's mappings are collected before any mapping is rewritten, and
\* collecting and rewriting occur in no other pass.
C17_PassesInSequence ==
  /\ PassesBegun = SubSeq(PassOrder, 1, Len(PassesBegun))
  /\ Finished => PassesBegun = PassOrder /\ log.steps[Len(log.steps)] = "dedupe"
  /\ (Processed /\ pc \in {"local", "inline", "mappings", "templates", "dedupe"}) =>
       /\ Len(PassesBegun) < Len(PassOrder)
       /\ PassOrder[Len(PassesBegun) + 1] = pc
  /\ \A i, j \in DOMAIN log.steps :
       (i < j /\ log.steps[i] = "rewrite" /\ log.steps[j] = "collect")
         => \E k \in (i + 1)..(j - 1) : log.steps[k] = "iteration"
  /\ \A i \in DOMAIN log.steps :
       log.steps[i] \in {"iteration", "collect", "rewrite"}
         => \E k \in 1..(i - 1) :
              /\ log.steps[k] = "mappings"
              /\ \A m \in (k + 1)..(i - 1) :
                   log.steps[m] \in {"iteration", "collect", "rewrite"}

\* A finished run whose first discriminator pass took two iterations that
\* each collected mappings and then rewrote some.
C17_Witness ==
  /\ Finished
  /\ PassesBegun = PassOrder
  /\ \E i, j, k, l \in DOMAIN log.steps :
       /\ i < j /\ j < k /\ k < l
       /\ log.steps[i] = "collect" /\ log.steps[j] = "rewrite"
       /\ log.steps[k] = "collect" /\ log.steps[l] = "rewrite"
       /\ \A m \in 1..l : log.steps[m] # "templates"

\* C18: a source path is in loadingSourcePaths exactly while a call for it
\* awaits its parse; a call made for a path while another call for that path
\* awaits its parse has returned undefined and never started a parse; so a
\* path has one parse in flight at most.
C18_GuardProtocol ==
  /\ \A p \in LoaderPaths \cup resolver.loadingSourcePaths :
       p \in resolver.loadingSourcePaths <=> InFlight(p)
  /\ \A i \in DOMAIN flights :
       flights[i].during =>
         /\ flights[i].state = "returned"
         /\ flights[i].ret = Undef
         /\ ~flights[i].parsed
  /\ \A i, j \in DOMAIN flights :
       (flights[i].state = "parsing" /\ flights[j].state = "parsing"
          /\ flights[i].path = flights[j].path) => i = j

\* Loads have ended in each of the three ways, a call was turned away by the
\* guard meanwhile, and loadingSourcePaths is empty again.
C18_Witness ==
  /\ pc = "loader"
  /\ \A exit \in {"loaded", "nonschema", "throw", "guarded"} :
       \E i \in DOMAIN log.calls : log.calls[i].exit = exit
  /\ \E i \in DOMAIN flights : flights[i].during
  /\ \A i \in DOMAIN flights : flights[i].state = "returned"
  /\ resolver.loadingSourcePaths = {}

\* C19: once a call of the loader for a source path has returned a schema,
\* every later call for that path, in whatever pass, returns the same object
\* from the cache, without a parse, and schemaBySourcePath holds that object
\* for the path.
C19_LoadCache ==
  /\ \A i, j \in DOMAIN log.calls :
       (i < j /\ log.calls[i].path = log.calls[j].path /\ log.calls[i].ret # Undef)
         => /\ log.calls[j].exit = "cached"
            /\ log.calls[j].ret = log.calls[i].ret
  /\ \A i \in DOMAIN log.calls :
       log.calls[i].ret # Undef
         => /\ MapHas(resolver.schemaBySourcePath, log.calls[i].path)
            /\ O(resolver.schemaBySourcePath[log.calls[i].path]) = log.calls[i].ret

\* A finished run that parsed a file, handled a source-template node, and was
\* then served the same object from the cache.
C19_Witness ==
  /\ Finished
  /\ \E i, j \in DOMAIN log.calls :
       /\ i < j
       /\ log.calls[i].path = log.calls[j].path
       /\ log.calls[i].exit = "loaded"
       /\ log.calls[j].exit = "cached"
       /\ log.calls[j].ret = log.calls[i].ret
       /\ \E k \in DOMAIN log.kept : log.kept[k].calls \in i..(j - 1)

\* The objects step 2a pre-registers: the records of the loaded files other
\* than the root document.
PreRegistered ==
  {refs.get[refs.paths[i]][2] :
     i \in {j \in DOMAIN refs.paths :
              refs.paths[j] # refs.paths[1] /\ isRecord(input, refs.get[refs.paths[j]])}}

\* C20 as stated: when step 2 has run, the registrations made are those of the
\* pre-registered objects that occur in a schema context at a location other
\* than a component root, locations inside a component included.
C20_HoistsSchemaContextOccurrences ==
  (Processed /\ pc = "local") =>
    \A e \in PreRegistered :
      e \in {log.regs[i].obj : i \in DOMAIN log.regs}
        <=> \E v \in Visits(input, root) :
              v.id = e /\ v.ctx /\ ~isComponentSchemaRootPointer(v.at)

\* The records the local-ref pass acts on in heap h: those at a schema-context
\* location whose $ref starts with #/ but not with #/components/schemas/ and
\* resolves in h to a record.
LocalRefSites(h) ==
  {v \in SchemaRefs(h) :
     /\ GetKey(h[v.id], "$ref")[1] = "p"
     /\ ~startsWithComponentPrefix(GetKey(h[v.id], "$ref")[2])
     /\ ResolvesToRecord(h, GetKey(h[v.id], "$ref"))}

\* C21 as stated: the local-ref pass leaves at every such record a component
\* pointer whose component entry is the resolved record itself, named by the
\* record's external-candidate name if it has one and by the name derived from
\* the ref otherwise; refs to one record receive one pointer.
C21_LocalRefsPointAtResolved ==
  [][(pc = "local" /\ pc' = "inline") =>
       \A v \in LocalRefSites(heap) :
         LET ref == GetKey(heap[v.id], "$ref")
             r == resolveLocalPointer(heap, root, ref[2])
             after == GetKey(heap'[v.id], "$ref")
             externalMatch == resolveExternalSchemaCandidate(heap, resolver, r[2])
         IN /\ after[1] = "p"
            /\ isComponentSchemaRootPointer(after[2])
            /\ GetKey(heap'[registry'.componentSchemas], componentNameOf(after)) = r
            /\ componentNameOf(after) = IF externalMatch.ok THEN externalMatch.name
                                        ELSE createSchemaNameFromPointer(ref[2])
            /\ \A w \in LocalRefSites(heap) :
                 resolveLocalPointer(heap, root, GetKey(heap[w.id], "$ref")[2]) = r
                   => GetKey(heap'[w.id], "$ref") = after]_vars

\* The entry e of log.mapped had a file reference whose lower-cased base name
\* two or more known source paths share, no single one of them ending with
\* "/" + the reference (its leading "./" dropped, lower-cased).
AmbiguousBaseName(e) ==
  LET pathRef == e.before[2]
      dirs == IF pathRef.d # <<>> /\ Head(pathRef.d) = "." THEN Tail(pathRef.d) ELSE pathRef.d
      normalizedRef == [i \in 1..Len(dirs) |-> <<toLowerCase(dirs[i]), "">>]
                         \o << lowerBaseName(pathRef) >>
  IN /\ Cardinality(e.known) >= 2
     /\ Cardinality({sp \in e.known : EndsWith(LowerSegments(sp), normalizedRef)}) # 1

\* C22 as stated: for a mapping value with an ambiguous base name
\* resolveMatchingSourcePath returns undefined and the discriminator pass
\* leaves the mapping value as it was.
C22_AmbiguousLeftUnchanged ==
  \A i \in DOMAIN log.mapped :
    AmbiguousBaseName(log.mapped[i])
      => log.mapped[i].matched = NoPath /\ log.mapped[i].after = log.mapped[i].before

\* C22 amended: for such a mapping value resolveMatchingSourcePath returns
\* undefined; the value is then changed exactly when the reference, resolved
\* against the source file of the schema that holds the discriminator, names a
\* file that loads as a schema, or, no such source file being known, when a
\* component named after the file exists; it becomes the pointer of the
\* component recorded for that file.
C22_AmbiguousResolvedByContextOnly ==
  \A i \in DOMAIN log.mapped :
    LET e == log.mapped[i]
    IN AmbiguousBaseName(e)
         => /\ e.matched = NoPath
            /\ (e.after # e.before)
                 <=> \/ e.context # NoPath /\ MapHas(resolver.schemaBySourcePath, e.context)
                     \/ e.context = NoPath /\ e.fallback
            /\ e.after # e.before
                 => /\ e.after[1] = "p" /\ isComponentSchemaRootPointer(e.after[2])
                    /\ IF e.context # NoPath
                         THEN OrderedGet(resolver.sourcePathByComponentName,
                                         componentNameOf(e.after)) = e.context
                         ELSE componentNameOf(e.after)
                                = createSchemaNameFromSourcePath(e.before[2])

C22_Witness ==
  /\ Finished
  /\ \E i, j \in DOMAIN log.mapped :
       /\ AmbiguousBaseName(log.mapped[i]) /\ AmbiguousBaseName(log.mapped[j])
       /\ log.mapped[i].after = log.mapped[i].before
       /\ log.mapped[j].after # log.mapped[j].before
       /\ log.mapped[j].context # NoPath

\* C23: replaceHoistedObjectsWithRefs leaves { $ref: <pointer> } in every slot
\* at a schema-context location other than a component root that held an
\* object with a pointer in the registry, and leaves every component-root
\* entry the object it was.
C23_DedupePostcondition ==
  [][(pc \in {"dedupe", "helper"} /\ pc' \in {"done", "deduped"}) =>
       /\ \A v \in Visits(heap, root) :
            (/\ v.ctx /\ v.par # 0
             /\ ~isComponentSchemaRootPointer(v.at)
             /\ MapHas(registry'.schemaPointersByValue, v.id))
              => LET slot == GetKey(heap'[v.par], v.key)
                 IN /\ isRecord(heap', slot)
                    /\ heap'[slot[2]]
                         = Rec(<< <<"$ref", P(registry'.schemaPointersByValue[v.id])>> >>)
       /\ heap'[registry'.componentSchemas].e = heap[registry'.componentSchemas].e]_vars

\* A document whose dedupe replaced a registered object in a record slot
\* inside a component, in a record slot outside the components and in an
\* array slot, and left one outside a schema context in place.
C23_Witness ==
  /\ pc = "deduped"
  /\ \E i, j, k \in DOMAIN log.repl :
       /\ log.repl[i].pass = "dedupe" /\ log.repl[j].pass = "dedupe"
       /\ log.repl[k].pass = "dedupe"
       /\ startsWithComponentPrefix(log.repl[i].at)
       /\ log.repl[j].at = <<"properties", "id">>
       /\ log.repl[k].at = <<"properties", "list", "0">>
  /\ GetKey(heap[HelperIds.info], "contact") = O(HelperIds.shared)
  /\ GetKey(heap[HelperIds.schemas], "Id") = O(HelperIds.shared)

\* The source paths of the model in the order of their UTF-16 code units
\* (upper-case letters before lower-case ones).
CodeUnitOrder ==
  << Path(<<"spec">>, "Entry", "yaml"), Path(<<"spec">>, "EventBase", "yaml"),
     Path(<<"spec">>, "Id", "yaml"), Path(<<"spec">>, "Note", "yaml"),
     Path(<<"spec">>, "Pet", "yaml"), Path(<<"spec">>, "RefA", "yaml"),
     Path(<<"spec">>, "RefB", "yaml"), Path(<<"spec">>, "UserA", "yaml"),
     Path(<<"spec">>, "UserB", "yaml"), Path(<<"spec", "b">>, "Pet", "yaml") >>

\* The source path of a loaded object
SourcePathOf(obj) == CHOOSE p \in DOMAIN refs.get : refs.get[p] = O(obj) /\ p # RootPath

\* The externals step 2b has to hoist: the loaded records that occur in a
\* schema context outside #/components/schemas/.
HoistTargets ==
  {refs.get[refs.paths[i]][2] :
     i \in {j \in DOMAIN refs.paths :
              /\ refs.paths[j] # refs.paths[1]
              /\ isRecord(input, refs.get[refs.paths[j]])
              /\ \E v \in Visits(input, root) :
                   /\ v.id = refs.get[refs.paths[j]][2]
                   /\ v.ctx /\ ~startsWithComponentPrefix(v.at)}}

\* C24 as stated: step 2b registers the externals in ascending lexicographic
\* order of their source paths, and of the externals with one source-path
\* name the one with the smallest source path gets the name without suffix.
C24_LexicographicOrder ==
  (Processed /\ pc = "local") =>
    LET rank(i) == CHOOSE k \in DOMAIN CodeUnitOrder :
                     CodeUnitOrder[k] = SourcePathOf(log.regs[i].obj)
    IN /\ \A i, j \in DOMAIN log.regs : i < j => rank(i) < rank(j)
       /\ \A i \in DOMAIN log.regs :
            (\A j \in DOMAIN log.regs :
               log.regs[j].preferred = log.regs[i].preferred => rank(i) <= rank(j))
              => log.regs[i].name = log.regs[i].preferred

\* C24 amended: step 2b registers the externals that occur in a schema context
\* outside the components, each once, in ascending localeCompare order of
\* their source paths, whatever the order of the loaded paths and of the
\* occurrences; of the externals with one source-path name the first in that
\* order gets the name without suffix unless the document came with a
\* component of that name, and the later ones get the higher suffixes.
C24_CollationOrder ==
  (Processed /\ pc = "local") =>
    LET rank(i) == localeRank(SourcePathOf(log.regs[i].obj))
    IN /\ {log.regs[i].obj : i \in DOMAIN log.regs} = HoistTargets
       /\ \A i, j \in DOMAIN log.regs : i < j => rank(i) < rank(j)
       /\ \A i \in DOMAIN log.regs :
            /\ log.regs[i].preferred = createSchemaNameFromSourcePath(SourcePathOf(log.regs[i].obj))
            /\ ~log.regs[i].existed
            /\ log.regs[i].name = createUniqueSchemaName(log.regs[i].preferred,
                                                         log.regs[i].namesBefore)
            /\ (\A j \in DOMAIN log.regs :
                  log.regs[j].preferred = log.regs[i].preferred => rank(i) <= rank(j))
                 => (log.regs[i].name = log.regs[i].preferred
                       <=> ~HasKey(input[Ids.schemas], log.regs[i].preferred)
                           \/ ~HasKey(input[root], "components"))

\* /spec/Pet.yaml is loaded before /spec/b/Pet.yaml and its object occurs
\* first in the document; the object of /spec/b/Pet.yaml is registered first
\* and named Pet, the other one Pet_2.
C24_Witness ==
  /\ Processed /\ pc = "local"
  /\ refs.paths = LoadedAll
  /\ GetKey(input[Ids.item1], "schema") = O(Ids.pet)
  /\ GetKey(input[Ids.item2], "schema") = O(Ids.petb)
  /\ \E i, j \in DOMAIN log.regs :
       /\ i < j
       /\ log.regs[i].obj = Ids.petb /\ log.regs[i].name = "Pet"
       /\ log.regs[j].obj = Ids.pet /\ log.regs[j].name = "Pet_2"

\* The positions at which the source file of a component has a record with an
\* external-file $ref whose file is loaded in resolver res, and the component
\* has a record; reached through keys both have and through array indexes
\* both have.
RECURSIVE TemplatePositions(_, _, _, _, _, _)
TemplatePositions(h, res, sourceNode, bundledNode, sourcePath, path) ==
  IF isRecord(h, sourceNode) /\ isRecord(h, bundledNode)
    THEN LET ref == GetKey(h[sourceNode[2]], "$ref")
         IN IF /\ IsString(ref) /\ looksLikeExternalFileReference(ref)
               /\ MapHas(res.schemaBySourcePath,
                         resolveSourcePathFromSourceRef(sourcePath, ref[2]))
              THEN {path}
              ELSE UNION {TemplatePositions(h, res, GetKey(h[sourceNode[2]], k),
                                            GetKey(h[bundledNode[2]], k), sourcePath,
                                            Append(path, k))
                          : k \in KeysOf(h[sourceNode[2]]) \cap KeysOf(h[bundledNode[2]])}
  ELSE IF isArray(h, sourceNode) /\ isArray(h, bundledNode)
    THEN UNION {TemplatePositions(h, res, h[sourceNode[2]].e[i][2], h[bundledNode[2]].e[i][2],
                                  sourcePath, Append(path, "[" \o h[sourceNode[2]].e[i][1] \o "]"))
                : i \in DOMAIN h[sourceNode[2]].e \cap DOMAIN h[bundledNode[2]].e}
  ELSE {}

\* The (component name, source path) pairs a reconstruction pass starts with
TemplatePairs ==
  IF pc = "helper" THEN prepareTemplates(createSchemaRegistry(Cur)).res.sourcePathByComponentName
  ELSE resolver.sourcePathByComponentName

\* The slots of a component that differ between before and after a pass
TemplateChanges(componentName) ==
  LET before == DeepValue(heap, GetKey(heap[registry'.componentSchemas], componentName),
                          {}, <<>>)
      after == DeepValue(heap', GetKey(heap'[registry'.componentSchemas], componentName),
                         {}, <<>>)
  IN (before \ after) \cup (after \ before)

\* C25: a source-template reconstruction pass changes a bundled component only
\* at and below the positions where its source file has a record with an
\* external-file $ref to a file that loads (and the component has a record);
\* at every other position the component after the pass equals the component
\* before it: keys the source lacks are kept, keys the component lacks are not
\* added, a value whose shape differs from the source's is kept, and arrays
\* keep their length and their elements beyond the source array's length.
\* At each such position the pass leaves a $ref to a component.
C25_TemplateFrame ==
  [][(pc \in {"templates", "helper"} /\ pc' \in {"mappings", "dedupe", "templated"}) =>
       \A i \in DOMAIN TemplatePairs :
         LET componentName == TemplatePairs[i][1]
             sourcePath == TemplatePairs[i][2]
             bundled == GetKey(heap[registry'.componentSchemas], componentName)
             rewritten == GetKey(heap'[registry'.componentSchemas], componentName)
             source == IF MapHas(resolver'.schemaBySourcePath, sourcePath)
                         THEN O(resolver'.schemaBySourcePath[sourcePath]) ELSE Undef
             positions == TemplatePositions(heap', resolver', source, bundled, sourcePath, <<>>)
         IN /\ \A change \in TemplateChanges(componentName) :
                 \E at \in positions : StartsWith(change[1], at)
            /\ \A at \in positions :
                 \E change \in DeepValue(heap', rewritten, {}, <<>>) :
                   /\ change[1] = Append(at, "$ref")
                   /\ change[2][1] = "p" /\ startsWithComponentPrefix(change[2][2])
    ]_vars

\* The component EventBase was rebuilt from a source file that has file refs
\* at properties.event, at oneOf[0] and in four places where nothing is to
\* change: a key the component lacks, a string in the component, a file that
\* does not load, an array the component lacks.  The two refs became component
\* refs; the key the source lacks, the string, the three-element array and
\* the one-element array are as before.
C25_Witness ==
  /\ pc = "templated"
  /\ LET after == DeepValue(heap, GetKey(heap[registry.componentSchemas], "EventBase"), {}, <<>>)
         before == DeepValue(HelperHeap, O(HelperIds.bundled), {}, <<>>)
     IN /\ <<<<"properties", "event", "$ref">>, P(<<"components", "schemas", "Id">>)>> \in after
        /\ <<<<"oneOf", "[0]", "$ref">>, P(<<"components", "schemas", "Id">>)>> \in after
        /\ \A slot \in before :
             ~StartsWith(slot[1], <<"properties", "event">>)
               /\ ~StartsWith(slot[1], <<"oneOf", "[0]">>) => slot \in after
        /\ <<<<"properties", "shape">>, S("text")>> \in after
        /\ <<<<"properties", "gone", "type">>, S("number")>> \in after
        /\ <<<<"oneOf", "[2]", "type">>, S("number")>> \in after
        /\ ~\E slot \in after : slot[1][1] = "allOf" \/ StartsWith(slot[1], <<"properties", "missing">>)
                                  \/ StartsWith(slot[1], <<"anyOf", "[1]">>)

\* Structural equality of two values: equal scalars, arrays of equal length
\* with equal elements in order, records with the same keys and equal values
\* whatever the key order; at the root the keys summary and description are
\* left out.  Two cyclic graphs are equal when their unfoldings are (a pair
\* met again on the way down is taken as equal).
RECURSIVE StructurallyEqual(_, _, _, _, _)
StructurallyEqual(h, a, b, isRoot, assumed) ==
  IF <<a, b>> \in assumed THEN TRUE
  ELSE IF ~isObject(h, a) \/ ~isObject(h, b) THEN a = b
  ELSE IF h[a[2]].arr # h[b[2]].arr THEN FALSE
  ELSE IF h[a[2]].arr
    THEN /\ Len(h[a[2]].e) = Len(h[b[2]].e)
         /\ \A i \in DOMAIN h[a[2]].e :
              StructurallyEqual(h, h[a[2]].e[i][2], h[b[2]].e[i][2], FALSE,
                                assumed \cup {<<a, b>>})
  ELSE LET keys(n) == IF isRoot THEN KeysOf(n) \ {"summary", "description"} ELSE KeysOf(n)
       IN /\ keys(h[a[2]]) = keys(h[b[2]])
          /\ \A k \in keys(h[a[2]]) :
               StructurallyEqual(h, GetKey(h[a[2]], k), GetKey(h[b[2]], k), FALSE,
                                 IF isRoot THEN assumed ELSE assumed \cup {<<a, b>>})

\* An object that contains itself
RECURSIVE HasCycle(_, _, _)
HasCycle(h, v, seen) ==
  /\ isObject(h, v)
  /\ \/ v[2] \in seen
     \/ \E i \in DOMAIN h[v[2]].e : HasCycle(h, h[v[2]].e[i][2], seen \cup {v[2]})

\* C26 as stated: the fingerprints of two schema records are equal if and only
\* if the records are structurally equal modulo key order at every depth and
\* modulo summary/description at the root.
C26_FingerprintIffEqual ==
  (pc = "helper" /\ returned # <<>> /\ returned.call = "fingerprint") =>
    (returned.fingerprints[1] = returned.fingerprints[2]
       <=> StructurallyEqual(heap, O(returned.first), O(returned.second), TRUE, {}))

\* C26 amended: for two schema records that do not contain themselves, the
\* fingerprints are equal if and only if the records are structurally equal
\* modulo key order at every depth and modulo summary/description at the root
\* only.  (A record that contains itself is written with the string
\* "[Circular]" at the repeated object.)
C26_FingerprintIffEqualAcyclic ==
  (pc = "helper" /\ returned # <<>> /\ returned.call = "fingerprint") =>
    LET a == O(returned.first)
        b == O(returned.second)
        same == returned.fingerprints[1] = returned.fingerprints[2]
    IN (~HasCycle(heap, a, {}) /\ ~HasCycle(heap, b, {}))
         => (same <=> StructurallyEqual(heap, a, b, TRUE, {}))

\* The records that differ in key order and root doc strings have one
\* fingerprint; so do the record that contains itself and the record that
\* holds the string a cycle is written as.
C26_Witness ==
  /\ pc = "helper" /\ returned # <<>> /\ returned.call = "fingerprint"
  /\ returned.first = HelperIds.first /\ returned.second = HelperIds.second
  /\ returned.fingerprints[1] = returned.fingerprints[2]
  /\ createSchemaFingerprint(heap, HelperIds.nestedA) # createSchemaFingerprint(heap, HelperIds.nestedB)
  /\ createSchemaFingerprint(heap, HelperIds.cyc) = createSchemaFingerprint(heap, HelperIds.marker)
  /\ createSchemaFingerprint(heap, HelperIds.cyc) # createSchemaFingerprint(heap, HelperIds.cycA)

\* C27: the visitor receives inSchemaContext = true for a node if and only if
\* one of the keys on the path from the root to the node is a schema-context
\* key: it is false at the root, true for everything below a node where it is
\* true, and false under `examples` reached through no schema-context key.
C27_SchemaContext ==
  (pc = "helper" /\ returned # <<>> /\ returned.call = "walk") =>
    /\ \A v \in returned.visited :
         /\ v.ctx <=> \E i \in DOMAIN v.at :
                        /\ v.at[i] \in SCHEMA_CONTEXT_KEYS
                        /\ isRecord(heap, resolveLocalPointer(heap, returned.value,
                                                               SubSeq(v.at, 1, i - 1)))
         /\ v.at = <<>> => ~v.ctx
         /\ (v.at # <<>> /\ v.at[1] = "examples"
               /\ \A i \in DOMAIN v.at : v.at[i] \notin SCHEMA_CONTEXT_KEYS) => ~v.ctx
    /\ \A v, w \in returned.visited : (v.ctx /\ StartsWith(w.at, v.at)) => w.ctx

\* The walk of the document visits the root and examples/0 outside a schema
\* context, examples/0/items and properties/user/examples/0 inside one.
C27_Witness ==
  /\ pc = "helper" /\ returned # <<>> /\ returned.call = "walk"
  /\ returned.value = HelperIds.doc
  /\ \E v \in returned.visited : v.at = <<>> /\ ~v.ctx
  /\ \E v \in returned.visited : v.at = <<"examples", "0">> /\ ~v.ctx
  /\ \E v \in returned.visited : v.at = <<"examples", "0", "items">> /\ v.ctx
  /\ \E v \in returned.visited : v.at = <<"properties", "user", "examples", "0">> /\ v.ctx
  /\ \E v \in returned.visited : v.at = <<"info", "contact">> /\ ~v.ctx

\* A visit of an object that is on its own path: the object at a proper
\* prefix of the visit's pointer.
RepeatEntry(v) ==
  \E k \in 0..(Len(v.at) - 1) :
    resolveLocalPointer(heap, returned.value, SubSeq(v.at, 1, k)) = O(v.id)

C29_KeysAreNames ==
  /\ [](/\ registry.componentSchemas # 0 =>
             KeysOf(heap[registry.componentSchemas]) \subseteq registry.schemaNames
        /\ \A i \in DOMAIN log.regs :
             /\ log.regs[i].keysBefore \subseteq log.regs[i].namesBefore
             /\ ~log.regs[i].existed => /\ log.regs[i].name \notin log.regs[i].namesBefore
                                        /\ log.regs[i].name \notin log.regs[i].keysBefore
             /\ i < Len(log.regs) =>
                  /\ log.regs[i].keysBefore \subseteq log.regs[i + 1].keysBefore
                  /\ ~log.regs[i].existed => log.regs[i].name \in log.regs[i + 1].keysBefore)
  /\ [][(registry.componentSchemas # 0 /\ registry'.componentSchemas = registry.componentSchemas) =>
          /\ KeysOf(heap[registry.componentSchemas]) \subseteq KeysOf(heap'[registry.componentSchemas])
          /\ pc # "templates" =>
               \A k \in KeysOf(heap[registry.componentSchemas]) :
                 GetKey(heap'[registry.componentSchemas], k) = GetKey(heap[registry.componentSchemas], k)
       ]_vars

\* A finished run in which an object was registered under a preferred name
\* that was a key of components.schemas already, and got a name with a suffix.
C29_Witness ==
  /\ Finished
  /\ \E i \in DOMAIN log.regs :
       /\ ~log.regs[i].existed
       /\ log.regs[i].preferred \in log.regs[i].keysBefore
       /\ log.regs[i].name # log.regs[i].preferred
       /\ HasKey(heap[registry.componentSchemas], log.regs[i].name)
       /\ HasKey(heap[registry.componentSchemas], log.regs[i].preferred)

\* C30: within one invocation at most one load of an external file is in
\* flight: loadingSourcePaths never holds more than one path, a parse starts
\* only when no path is loading (so no two loads of one path overlap), every
\* call returns with no path loading, and the set is empty when the
\* invocation completes.
C30_OneLoadInFlight ==
  /\ Cardinality(resolver.loadingSourcePaths) <= 1
  /\ \A i \in DOMAIN log.loads :
       /\ log.loads[i].before = {}
       /\ log.loads[i].during = {log.loads[i].path}
       \* the call that began the parse has returned before the next parse begins
       /\ i < Len(log.loads) => log.loads[i + 1].calls > log.loads[i].calls
  /\ \A i \in DOMAIN log.calls : log.calls[i].loading = {}
  /\ pc \in {"done", "diverged"} => resolver.loadingSourcePaths = {}

\* A finished run that parsed two files one after the other, one parse that
\* failed and one that gave a schema, each with no other load in flight.
C30_Witness ==
  /\ Finished
  /\ resolver.loadingSourcePaths = {}
  /\ \E i, j \in DOMAIN log.loads :
       /\ i < j
       /\ log.loads[i].path # log.loads[j].path
       /\ log.loads[j].during = {log.loads[j].path}
  /\ \E i \in DOMAIN log.calls : log.calls[i].exit = "throw"
  /\ \E i \in DOMAIN log.calls : log.calls[i].exit = "loaded"

====
